---- MODULE Spec2Model ----
(***************************************************************************)
(* LogMagic: the Logger, the Log Rotator and the tokenizer they rest on.   *)
(* Text is modelled as a sequence of one-character strings, so that        *)
(* quoting, tokenizing and prefix matching are computed, not assumed.      *)
(***************************************************************************)
EXTENDS Integers, Sequences, FiniteSets, TLC

(***************************************************************************)
(* Token types (tokenizer.ts).                                             *)
(***************************************************************************)
TOKEN_NUMBER == "number"
TOKEN_STRING == "string"
TOKEN_IDENTIFIER == "identifier"
TOKEN_KEYWORD == "keyword"
TOKEN_PUNCTUATION == "punctuation"
TOKEN_OPERATOR == "operator"
TOKEN_COMMENT == "comment"
TOKEN_WHITESPACE == "whitespace"

Tok(type, value) == [type |-> type, value |-> value]

\* An absent value (undefined / null).
None == [none |-> TRUE]

(***************************************************************************)
(* String primitives of the JavaScript runtime, on character sequences.    *)
(***************************************************************************)
Min2(a, b) == IF a < b THEN a ELSE b

\* the first n elements of a sequence, all of them when it has fewer
FirstN(seq, n) == SubSeq(seq, 1, Min2(Len(seq), n))

\* input.startsWith(p, i) with a 1-based position i
StartsWithAt(s, p, i) ==
  /\ i >= 1
  /\ i + Len(p) - 1 <= Len(s)
  /\ \A k \in 1..Len(p) : s[i + k - 1] = p[k]

StartsWith(s, p) == StartsWithAt(s, p, 1)

EndsWith(s, p) == Len(p) <= Len(s) /\ StartsWithAt(s, p, Len(s) - Len(p) + 1)

\* s.indexOf(p): the 0-based index of the first occurrence, or -1
IndexOf(s, p) ==
  LET hits == {i \in 1..(Len(s) + 1) : StartsWithAt(s, p, i)}
  IN  IF hits = {} THEN -1 ELSE (CHOOSE i \in hits : \A j \in hits : i <= j) - 1

\* s.includes(p)
Includes(s, p) == IndexOf(s, p) # -1

\* s.replace(p, r) with a string pattern: only the first occurrence is replaced
ReplaceFirst(s, p, r) ==
  LET at == IndexOf(s, p)
  IN  IF at = -1 THEN s
      ELSE SubSeq(s, 1, at) \o r \o SubSeq(s, at + Len(p) + 1, Len(s))

\* the first and the second half of a sequence
FirstHalf(ss) == SubSeq(ss, 1, Len(ss) \div 2)
SecondHalf(ss) == SubSeq(ss, (Len(ss) \div 2) + 1, Len(ss))

\* the texts of ss one after the other, put together half by half
RECURSIVE Concat(_)
Concat(ss) ==
  CASE Len(ss) = 0 -> <<>>
    [] Len(ss) = 1 -> ss[1]
    [] OTHER -> Concat(FirstHalf(ss)) \o Concat(SecondHalf(ss))

\* parts.join(sep)
RECURSIVE Join(_, _)
Join(parts, sep) ==
  CASE Len(parts) = 0 -> <<>>
    [] Len(parts) = 1 -> parts[1]
    [] OTHER -> Join(FirstHalf(parts), sep) \o sep \o Join(SecondHalf(parts), sep)

\* the sequence without its last element
Front(seq) == SubSeq(seq, 1, Len(seq) - 1)

\* A loop whose index only moves forward: from position p it goes on at
\* caret[p] > p.  caretWalk gives the positions in lo..hi the loop stands on
\* when it enters at e >= lo, followed by the position it leaves the range
\* at.  The range is walked half by half.
RECURSIVE caretWalk(_, _, _, _)
caretWalkOn(left, caret, mid, hi) ==
  SubSeq(left, 1, Len(left) - 1) \o caretWalk(caret, mid + 1, hi, left[Len(left)])

caretWalk(caret, lo, hi, e) ==
  CASE e > hi -> <<e>>
    [] e <= hi /\ lo = hi -> <<lo, caret[lo]>>
    [] OTHER -> caretWalkOn(caretWalk(caret, lo, (lo + hi) \div 2, e),
                            caret, (lo + hi) \div 2, hi)

\* the positions a loop over 1..n stands on when it starts at i; over no
\* positions it does not run
caretsFrom(caret, i, n) ==
  IF caret = <<>> THEN <<>> ELSE Front(caretWalk(caret, i, n, i))

(***************************************************************************)
(* The javascript grammar (languages/javascript.ts).                       *)
(***************************************************************************)
PUNCTUATION ==
  {
      ",", ".", ";", "\\", "[", "]", "{", "}", "@", "#", "(", ")"
  }

IDENTIFIER_START ==
  {
      "q", "w", "e", "r", "t", "y", "u", "i", "o", "p", "a", "s", "d", "f", "g", "h", "j", "k",
      "l", "z", "x", "c", "v", "b", "n", "m", "Q", "W", "E", "R", "T", "Y", "U", "I", "O", "P",
      "A", "S", "D", "F", "G", "H", "J", "K", "L", "Z", "X", "C", "V", "B", "N", "M", "$", "_"
  }

DIGITS == {"1", "2", "3", "4", "5", "6", "7", "8", "9", "0"}

IDENTIFIER == IDENTIFIER_START \cup DIGITS

OPERATOR ==
  {
      "-", "+", "/", "*", "%", "=", "<", ">", "!", "|", "&", "^", "?", ":", "~"
  }

\* the backquote is written "BACKQUOTE": one element of a text, like any character
STRING_DELIM == {"\"", "'", "BACKQUOTE"}

SINGLE_LINE_COMMENT == <<"/", "/">>
MULTI_LINE_COMMENT_START == <<"/", "*">>
MULTI_LINE_COMMENT_END == <<"*", "/">>

KEYWORD ==
  {
      <<"b", "r", "e", "a", "k">>, <<"c", "a", "s", "e">>, <<"c", "a", "t", "c", "h">>,
      <<"c", "l", "a", "s", "s">>, <<"c", "o", "n", "s", "t">>, <<"c", "o", "n", "t", "i", "n", "u", "e">>,
      <<"d", "e", "b", "u", "g", "g", "e", "r">>, <<"d", "e", "f", "a", "u", "l", "t">>, <<"d", "e", "l", "e", "t", "e">>,
      <<"d", "o">>, <<"e", "l", "s", "e">>, <<"e", "x", "p", "o", "r", "t">>,
      <<"e", "x", "t", "e", "n", "d", "s">>, <<"f", "i", "n", "a", "l", "l", "y">>, <<"f", "o", "r">>,
      <<"f", "u", "n", "c", "t", "i", "o", "n">>, <<"i", "f">>, <<"i", "m", "p", "o", "r", "t">>,
      <<"i", "n">>, <<"i", "n", "s", "t", "a", "n", "c", "e", "o", "f">>, <<"n", "e", "w">>,
      <<"r", "e", "t", "u", "r", "n">>, <<"s", "u", "p", "e", "r">>, <<"s", "w", "i", "t", "c", "h">>,
      <<"t", "h", "i", "s">>, <<"t", "h", "r", "o", "w">>, <<"t", "r", "y">>,
      <<"t", "y", "p", "e", "o", "f">>, <<"v", "a", "r">>, <<"v", "o", "i", "d">>,
      <<"w", "h", "i", "l", "e">>, <<"w", "i", "t", "h">>, <<"y", "i", "e", "l", "d">>,
      <<"i", "m", "p", "l", "e", "m", "e", "n", "t", "s">>, <<"i", "n", "t", "e", "r", "f", "a", "c", "e">>, <<"l", "e", "t">>,
      <<"p", "a", "c", "k", "a", "g", "e">>, <<"p", "r", "i", "v", "a", "t", "e">>, <<"p", "r", "o", "t", "e", "c", "t", "e", "d">>,
      <<"p", "u", "b", "l", "i", "c">>, <<"s", "t", "a", "t", "i", "c">>, <<"a", "b", "s", "t", "r", "a", "c", "t">>,
      <<"b", "o", "o", "l", "e", "a", "n">>, <<"b", "y", "t", "e">>, <<"c", "h", "a", "r">>,
      <<"d", "o", "u", "b", "l", "e">>, <<"f", "i", "n", "a", "l">>, <<"f", "l", "o", "a", "t">>,
      <<"g", "o", "t", "o">>, <<"i", "n", "t">>, <<"l", "o", "n", "g">>,
      <<"n", "a", "t", "i", "v", "e">>, <<"s", "h", "o", "r", "t">>, <<"s", "y", "n", "c", "h", "r", "o", "n", "i", "z", "e", "d">>,
      <<"t", "h", "r", "o", "w", "s">>, <<"t", "r", "a", "n", "s", "i", "e", "n", "t">>, <<"v", "o", "l", "a", "t", "i", "l", "e">>,
      <<"n", "u", "l", "l">>, <<"t", "r", "u", "e">>, <<"f", "a", "l", "s", "e">>,
      <<"I", "n", "f", "i", "n", "i", "t", "y">>, <<"o", "f">>, <<"N", "u", "m", "b", "e", "r">>,
      <<"S", "t", "r", "i", "n", "g">>, <<"D", "a", "t", "e">>, <<"E", "r", "r", "o", "r">>,
      <<"R", "e", "g", "E", "x", "p">>, <<"M", "a", "p">>, <<"S", "e", "t">>,
      <<"W", "e", "a", "k", "M", "a", "p">>, <<"W", "e", "a", "k", "S", "e", "t">>, <<"P", "r", "o", "m", "i", "s", "e">>,
      <<"a", "w", "a", "i", "t">>, <<"a", "s", "y", "n", "c">>, <<"I", "n", "t", "l">>,
      <<"f", "r", "o", "m">>
  }

\* /\s/.test(char)
WHITESPACE == {" ", "\t"}

(***************************************************************************)
(* The tokenizer (tokenizer.ts, the version that keeps whitespace tokens). *)
(* Positions are 1-based; a read returns the position after what it read.  *)
(***************************************************************************)
\* the iteration ceiling of the tokenize loop
MaxTokenizeSteps == 9999

\* readWhile: the first position at or after i whose character fails the
\* test; the position after the input fails every test
readWhile(input, i, chars) ==
  CHOOSE e \in i..(Len(input) + 1) :
    /\ e = Len(input) + 1 \/ input[e] \notin chars
    /\ \A k \in i..(e - 1) : input[k] \in chars

\* The readUntil loop at caret p with escaped unset: what it adds to str, the
\* caret it goes on at, and whether it breaks.  A backslash is skipped and
\* the iteration after it takes the next character as it is, if there is one.
readUntilStep(input, p, endDelim, canEscape) ==
  IF canEscape /\ input[p] = "\\"
  THEN [str |-> IF p + 1 <= Len(input) THEN <<input[p + 1]>> ELSE <<>>,
        i |-> p + 2, break |-> FALSE]
  ELSE IF StartsWithAt(input, endDelim, p)
  THEN [str |-> <<>>, i |-> Len(input) + 1, break |-> TRUE]
  ELSE [str |-> <<input[p]>>, i |-> p + 1, break |-> FALSE]

\* what readUntil returns after the iterations at the carets in steps
readUntilAfter(input, i, endDelim, canEscape, steps) ==
  [str |-> Concat([k \in 1..Len(steps) |->
                     readUntilStep(input, steps[k], endDelim, canEscape).str]),
   i |-> IF Len(steps) = 0 THEN i
         ELSE IF readUntilStep(input, steps[Len(steps)], endDelim, canEscape).break
         THEN steps[Len(steps)]
         ELSE Len(input) + 1]

\* readUntil: reads up to endDelim; [str, i] with i the caret it stops at
readUntil(input, i, endDelim, canEscape) ==
  readUntilAfter(input, i, endDelim, canEscape,
    caretsFrom([p \in 1..Len(input) |->
                  readUntilStep(input, p, endDelim, canEscape).i],
               i, Len(input)))

readWhitespace(input, i) ==
  LET e == readWhile(input, i, WHITESPACE)
  IN  [token |-> Tok(TOKEN_WHITESPACE, SubSeq(input, i, e - 1)), i |-> e]

readNumber(input, i) ==
  LET e == readWhile(input, i, DIGITS)
  IN  [token |-> Tok(TOKEN_NUMBER, SubSeq(input, i, e - 1)), i |-> e]

readOperator(input, i) ==
  LET e == readWhile(input, i, OPERATOR)
  IN  [token |-> Tok(TOKEN_OPERATOR, SubSeq(input, i, e - 1)), i |-> e]

readPunctuation(input, i) ==
  [token |-> Tok(TOKEN_PUNCTUATION, <<input[i]>>), i |-> i + 1]

readIdentifier(input, i) ==
  LET e == readWhile(input, i, IDENTIFIER)
      str == SubSeq(input, i, e - 1)
  IN  [token |-> Tok(IF str \in KEYWORD THEN TOKEN_KEYWORD ELSE TOKEN_IDENTIFIER, str),
       i |-> e]

readString(input, i, quoteChar) ==
  LET r == readUntil(input, i + 1, <<quoteChar>>, TRUE)
  IN  [token |-> Tok(TOKEN_STRING, r.str), i |-> r.i + 1]

readSingleLineComment(input, i) ==
  [token |-> Tok(TOKEN_COMMENT,
                 SubSeq(input, i + Len(SINGLE_LINE_COMMENT), Len(input))),
   i |-> Len(input) + 1]

readMultiLineComment(input, i) ==
  LET r == readUntil(input, i + Len(MULTI_LINE_COMMENT_START),
                     MULTI_LINE_COMMENT_END, FALSE)
  IN  [token |-> Tok(TOKEN_COMMENT, r.str), i |-> r.i + Len(MULTI_LINE_COMMENT_END)]

\* the switch of the tokenize loop at caret i: the token read and the caret
\* after it, or None where the default case throws
\* a tokenizer that reads whitespace and nothing else
readWhitespaceOnly(input, i) ==
  IF input[i] \in WHITESPACE THEN readWhitespace(input, i) ELSE None

readToken(input, i) ==
  IF input[i] \in WHITESPACE THEN readWhitespace(input, i)
  ELSE IF StartsWithAt(input, SINGLE_LINE_COMMENT, i)
    THEN readSingleLineComment(input, i)
  ELSE IF StartsWithAt(input, MULTI_LINE_COMMENT_START, i)
    THEN readMultiLineComment(input, i)
  ELSE IF input[i] \in DIGITS THEN readNumber(input, i)
  ELSE IF input[i] \in OPERATOR THEN readOperator(input, i)
  ELSE IF input[i] \in PUNCTUATION THEN readPunctuation(input, i)
  ELSE IF input[i] \in STRING_DELIM THEN readString(input, i, input[i])
  ELSE IF input[i] \in IDENTIFIER_START THEN readIdentifier(input, i)
  ELSE None

\* the caret after the iteration at i; a throw ends the loop
caretAfter(input, i) ==
  IF readToken(input, i) = None THEN Len(input) + 1 ELSE readToken(input, i).i

\* the carets of the iterations of the tokenize loop, at most MaxTokenizeSteps
tokenizeCarets(input) ==
  FirstN(caretsFrom([i \in 1..Len(input) |-> caretAfter(input, i)], 1, Len(input)),
         MaxTokenizeSteps)

tokensAt(input, carets) ==
  IF \E k \in 1..Len(carets) : readToken(input, carets[k]) = None
  THEN [ok |-> FALSE, tokens |-> <<>>]
  ELSE [ok |-> TRUE,
        tokens |-> [k \in 1..Len(carets) |-> readToken(input, carets[k]).token]]

\* tokenize: [ok, tokens]; ok = FALSE is the thrown tokenizer error
tokenize(input) == tokensAt(input, tokenizeCarets(input))

\* The caret i belongs to the tokenizer, not to a call: a tokenizer that is
\* kept and called again starts with the caret the call before left.
\* A loop that starts where the caret was left
keptCaret(i) == i

\* i = 0, the first statement of tokenize
resetCaret(i) == 1

\* the caret a call leaves: where it threw, or after the last token it read
caretLeft(input, i, carets) ==
  IF Len(carets) = 0 THEN i
  ELSE IF readToken(input, carets[Len(carets)]) = None THEN carets[Len(carets)]
  ELSE readToken(input, carets[Len(carets)]).i

cachedTokenizeOn(input, i, carets) ==
  [out |-> tokensAt(input, carets), i |-> caretLeft(input, i, carets)]

\* tokenize called on a tokenizer whose caret stands at i: [out, i]
cachedTokenize(input, i) ==
  cachedTokenizeOn(input, resetCaret(i),
    FirstN(caretsFrom([p \in 1..Len(input) |-> caretAfter(input, p)],
                      resetCaret(i), Len(input)),
           MaxTokenizeSteps))

(***************************************************************************)
(* Token-sequence utilities (util.ts).                                     *)
(***************************************************************************)
PARENS == <<"{", "[", "(", ")", "]", "}">>
PARENS_EXT == <<"{", "[", "(", "<", ">", ")", "]", "}">>

isPuncOrOp(t) == t.type = TOKEN_PUNCTUATION \/ t.type = TOKEN_OPERATOR

isSameParen(t, initialParen) == isPuncOrOp(t) /\ t.value = initialParen

\* the partner looked up in the pair set with the angle brackets
isOppositeParenExt(t, initialParen) ==
  LET at == Len(PARENS_EXT) - 1 - IndexOf(PARENS_EXT, initialParen)
  IN  /\ isPuncOrOp(t)
      /\ at >= 0 /\ at < Len(PARENS_EXT)
      /\ t.value = <<PARENS_EXT[at + 1]>>

\* PARENS[PARENS.length - 1 - PARENS.indexOf(initialParen)]: always looked up
\* in PARENS, whatever pair set the caller passed; outside the string: undefined
isOppositeParen(t, initialParen) ==
  LET at == Len(PARENS) - 1 - IndexOf(PARENS, initialParen)
  IN  /\ isPuncOrOp(t)
      /\ at >= 0 /\ at < Len(PARENS)
      /\ t.value = <<PARENS[at + 1]>>

\* getCodeBlockAt, walking from startIndex (1-based) in the given direction.
\* The loop runs while the 0-based index is > 0 and < tokens.length.
RECURSIVE codeBlockWalk(_, _, _, _, _, _)
codeBlockWalk(tokens, i, direction, initialParen, depth, included) ==
  IF ~(i > 1 /\ i <= Len(tokens)) THEN included
  ELSE
    LET inc == Append(included, tokens[i])
        d == IF isSameParen(tokens[i], initialParen) THEN depth + 1
             ELSE IF isOppositeParen(tokens[i], initialParen) THEN depth - 1
             ELSE depth
    IN  IF d = -1 THEN inc
        ELSE codeBlockWalk(tokens, i + direction, direction, initialParen, d, inc)

getCodeBlockAt(tokens, startIndex, direction, parens) ==
  LET initialParen == tokens[startIndex].value
  IN  IF ~isPuncOrOp(tokens[startIndex]) \/ ~Includes(parens, initialParen)
      THEN <<>>
      ELSE codeBlockWalk(tokens, startIndex + direction, direction, initialParen,
                         0, <<tokens[startIndex]>>)

isCompleteCodeBlock(tokens) ==
  /\ Len(tokens) > 0
  /\ isPuncOrOp(tokens[1])
  /\ isOppositeParen(tokens[Len(tokens)], tokens[1].value)

\* quoteString: wraps str in quoteChar and escapes quoteChar inside it with
\* String.replace given a string pattern
quoteString(str, quoteChar) ==
  quoteChar \o ReplaceFirst(str, quoteChar, <<"\\">> \o quoteChar) \o quoteChar

DefaultQuote == <<"\"">>

serializeToken(token, quoteChar) ==
  IF token.type = TOKEN_STRING THEN quoteString(token.value, quoteChar)
  ELSE token.value

serializeTokens(tokens, quoteChar) ==
  Concat([k \in 1..Len(tokens) |-> serializeToken(tokens[k], quoteChar)])

\* popColon: drops one trailing colon of the token's value
popColon(token) ==
  LET v == token.value
  IN  IF Len(v) > 0 /\ v[Len(v)] = ":"
      THEN [token EXCEPT !.value = SubSeq(v, 1, Len(v) - 1)]
      ELSE token

\* shortenIdentifier: a text longer than MaxKeyLength keeps a head and a tail
\* fragment joined with ".."
MaxKeyLength == 18
KeyFragment == 8

shortenIdentifier(str) ==
  IF Len(str) <= MaxKeyLength THEN str
  ELSE SubSeq(str, 1, KeyFragment) \o <<".", ".">>
       \o SubSeq(str, Len(str) - KeyFragment + 1, Len(str))

(***************************************************************************)
(* The Logger (logger.ts).  A LogFormat is a record of its seven fields; a *)
(* ParseResult is [tokens, logItems, logId, logFormat], the last two       *)
(* possibly None.                                                          *)
(***************************************************************************)
ParseResult(tokens, logItems, logId, logFormat) ==
  [tokens |-> tokens, logItems |-> logItems, logId |-> logId, logFormat |-> logFormat]

createLogItemKey(serializedItemValue, isFirst, format) ==
  LET spacePrefix == IF format.insertSpaces /\ ~isFirst THEN <<" ">> ELSE <<>>
      spaceSuffix == IF format.insertSpaces THEN <<" ">> ELSE <<>>
  IN  quoteString(spacePrefix \o shortenIdentifier(serializedItemValue) \o <<":">>
                    \o spaceSuffix,
                  format.quoteCharacter)

\* a check that takes every item for a literal
everyItemIsOnlyLiterals(logItem) == TRUE

itemIsOnlyLiterals(logItem) ==
  ~\E k \in 1..Len(logItem) :
      logItem[k].type = TOKEN_IDENTIFIER \/ logItem[k].type = TOKEN_KEYWORD

\* the callback listLogItems maps over the log items; i is the 0-based index
logItemParam(logItem, i, format, usingLogId) ==
  LET serializedItemValue == serializeTokens(logItem, format.quoteCharacter)
  IN  (IF ~itemIsOnlyLiterals(logItem)
       THEN createLogItemKey(serializedItemValue, ~usingLogId /\ i = 0, format)
            \o format.parameterSeparator
       ELSE <<>>)
      \o format.identifierPrefix \o serializedItemValue \o format.identifierSuffix

listLogItems(parseResult, format, usingLogId) ==
  Join([i \in 1..Len(parseResult.logItems) |->
          logItemParam(parseResult.logItems[i], i - 1, format, usingLogId)],
       format.parameterSeparator)

logIdMatchesItemKey(parseResult, format) ==
  /\ parseResult.logId # None
  /\ Len(parseResult.logItems) # 0
  /\ serializeToken(parseResult.logId, format.quoteCharacter)
       = serializeTokens(parseResult.logItems[1], format.quoteCharacter)

\* the record of a log call that has not happened
NotLogged ==
  [format |-> None, threw |-> FALSE, useLogId |-> FALSE, params |-> <<>>, out |-> <<>>]

\* a log that returns an empty statement and never throws
logNothing(parseResult, formatArg) == NotLogged

\* log: [threw, format, useLogId, params, out]
log(parseResult, formatArg) ==
  LET render(format, useLogId, params) ==
        [format |-> format, threw |-> FALSE, useLogId |-> useLogId,
         params |-> params,
         out |-> format.logPrefix \o Join(params, format.parameterSeparator)
                   \o format.logSuffix]
      withLogId(format, useLogId) ==
        render(format, useLogId,
          (IF useLogId
           THEN <<quoteString(parseResult.logId.value, format.quoteCharacter)>>
           ELSE <<>>)
          \o (IF Len(parseResult.logItems) # 0
              THEN <<listLogItems(parseResult, format, useLogId)>>
              ELSE <<>>))
      withFormat(format) ==
        IF format = None
        THEN [format |-> None, threw |-> TRUE, useLogId |-> FALSE,
              params |-> <<>>, out |-> <<>>]
        ELSE withLogId(format,
               parseResult.logId # None /\ ~logIdMatchesItemKey(parseResult, format))
  IN  withFormat(IF formatArg # None THEN formatArg ELSE parseResult.logFormat)

\* createLogger(format): log bound to one format
createLogger(format, parseResult) == log(parseResult, format)

(***************************************************************************)
(* The Log Rotator (logRotator.ts).                                        *)
(***************************************************************************)
RemoveAt(seq, i) == SubSeq(seq, 1, i - 1) \o SubSeq(seq, i + 1, Len(seq))

Max2(a, b) == IF a > b THEN a ELSE b

\* The loop of getMatchingTokens at i.  serializedStr only grows, so once it
\* is longer than str the iterations left, which the loop still makes, cannot
\* match: the walk gives their result, the empty run, at once.
RECURSIVE matchWalk(_, _, _, _, _, _)
matchWalkOn(tokens, str, index, direction, i, s) ==
  IF s = str THEN SubSeq(tokens, Min2(index, i), Max2(index, i))
  ELSE IF Len(s) > Len(str) THEN <<>>
  ELSE matchWalk(tokens, str, index, direction, i + direction, s)

matchWalk(tokens, str, index, direction, i, serializedStr) ==
  IF ~(i >= 1 /\ i <= Len(tokens)) THEN <<>>
  ELSE matchWalkOn(tokens, str, index, direction, i,
         IF direction = 1
         THEN serializedStr \o serializeToken(tokens[i], DefaultQuote)
         ELSE serializeToken(tokens[i], DefaultQuote) \o serializedStr)

\* a matcher that finds no run
noMatchingTokens(tokens, str, index, direction) == <<>>

\* getMatchingTokens: the run of tokens from index (1-based) in the direction
\* whose serialization equals str, or the empty run
getMatchingTokens(tokens, str, index, direction) ==
  matchWalk(tokens, str, index, direction, index, <<>>)

\* getDetectLogFormatFn(config): [error, result]; error "ParseError" is the throw
RECURSIVE detectLogFormatFrom(_, _, _)
detectLogFormatFrom(config, result, i) ==
  IF i > Len(config) THEN [error |-> "ParseError", result |-> result]
  ELSE
    LET matchingTokens == getMatchingTokens(result.tokens, config[i].logPrefix, 1, 1)
    IN  IF Len(matchingTokens) = 0 THEN detectLogFormatFrom(config, result, i + 1)
        ELSE [error |-> "none",
              result |-> [result EXCEPT
                 !.logFormat = config[i],
                 !.tokens = SubSeq(result.tokens, Len(matchingTokens) + 1,
                                   Len(result.tokens))]]

getDetectLogFormatFn(config, result) == detectLogFormatFrom(config, result, 1)

removeLogSuffix(result) ==
  LET suffix == IF result.logFormat = None THEN <<>> ELSE result.logFormat.logSuffix
      matchingTokens == getMatchingTokens(result.tokens, suffix, Len(result.tokens), -1)
  IN  IF Len(matchingTokens) = 0 THEN result
      ELSE [result EXCEPT
              !.tokens = SubSeq(result.tokens, 1,
                                Len(result.tokens) - Len(matchingTokens))]

\* detectLogId: inspects the first non-whitespace token, pops its colon in
\* place, and removes the token at the head of the stream
detectLogId(result) ==
  LET tokens == result.tokens
      nonWhite == {k \in 1..Len(tokens) : tokens[k].type # TOKEN_WHITESPACE}
  IN  IF nonWhite = {} THEN result
      ELSE
        LET k == CHOOSE x \in nonWhite : \A y \in nonWhite : x <= y
        IN  IF tokens[k].type # TOKEN_STRING THEN result
            ELSE [result EXCEPT
                    !.logId = popColon(tokens[k]),
                    !.tokens = Tail([tokens EXCEPT ![k] = popColon(tokens[k])])]

\* removeIdentifierStrings.  The token at p is spliced out when it is a string
\* that names an identifier after it; identifiers are never spliced, so the
\* test reads the same on the tokens as they came in.
isIdentifierString(tokens, p) ==
  /\ tokens[p].type = TOKEN_STRING
  /\ \E j \in (p + 1)..Len(tokens) :
        /\ tokens[j].type = TOKEN_IDENTIFIER
        /\ tokens[p].value = tokens[j].value \o <<":">>

\* the tokens the loop stands on: after a splice the index still advances, so
\* the token after a spliced one is passed over
identifierStringCarets(tokens) ==
  caretsFrom([p \in 1..Len(tokens) |->
                IF isIdentifierString(tokens, p) THEN p + 2 ELSE p + 1],
             1, Len(tokens))

\* the tokens left when those among the carets that name an identifier are out
withoutIdentifierStrings(tokens, carets) ==
  Concat([p \in 1..Len(tokens) |->
            IF isIdentifierString(tokens, p)
               /\ \E k \in 1..Len(carets) : carets[k] = p
            THEN <<>> ELSE <<tokens[p]>>])

removeIdentifierStringsFrom(tokens) ==
  withoutIdentifierStrings(tokens, identifierStringCarets(tokens))

removeIdentifierStrings(result) ==
  [result EXCEPT !.tokens = removeIdentifierStringsFrom(result.tokens)]

\* The loop of getTokensUntilSeparator at i: the number of tokens it passes.
\* A separator is skipped; a complete code block or else the one token goes to
\* the accumulator.
separatorLength(tokens, separator, i) == Len(getMatchingTokens(tokens, separator, i, 1))

separatorStep(tokens, separator, i) ==
  IF separatorLength(tokens, separator, i) # 0
  THEN separatorLength(tokens, separator, i)
  ELSE IF isCompleteCodeBlock(getCodeBlockAt(tokens, i, 1, PARENS_EXT))
  THEN Len(getCodeBlockAt(tokens, i, 1, PARENS_EXT))
  ELSE 1

\* the positions the loop finds a separator at, in order
separatorCarets(tokens, separator) ==
  SelectSeq(caretsFrom([i \in 1..Len(tokens) |-> i + separatorStep(tokens, separator, i)],
                       1, Len(tokens)),
            LAMBDA i : separatorLength(tokens, separator, i) # 0)

\* The accumulator takes every token the loop passes between two separators,
\* so the runs are the tokens between them: one yielded at each separator and
\* the one returned at the end.
tokensBetween(tokens, separator, carets) ==
  [k \in 1..(Len(carets) + 1) |->
     SubSeq(tokens,
            IF k = 1 THEN 1
            ELSE carets[k - 1] + separatorLength(tokens, separator, carets[k - 1]),
            IF k > Len(carets) THEN Len(tokens) ELSE carets[k] - 1)]

getTokensUntilSeparator(tokens, separator) ==
  tokensBetween(tokens, separator, separatorCarets(tokens, separator))

\* collectLogItems pushes the runs that are not empty
collectLogItems(result) ==
  [result EXCEPT
     !.logItems =
       SelectSeq(getTokensUntilSeparator(result.tokens,
                   IF result.logFormat = None THEN <<>>
                   ELSE result.logFormat.parameterSeparator),
                 LAMBDA value : Len(value) # 0)]

unwrapLogItem(logItem, prefix, suffix) ==
  LET prefixTokens == IF prefix # <<>> THEN getMatchingTokens(logItem, prefix, 1, 1)
                      ELSE <<>>
      suffixTokens == IF suffix # <<>>
                      THEN getMatchingTokens(logItem, suffix, Len(logItem), -1)
                      ELSE <<>>
      afterPrefix == IF Len(prefixTokens) # 0 /\ (Len(suffixTokens) # 0 \/ suffix = <<>>)
                     THEN SubSeq(logItem, Len(prefixTokens) + 1, Len(logItem))
                     ELSE logItem
  IN  IF Len(suffixTokens) # 0 /\ (Len(prefixTokens) # 0 \/ prefix = <<>>)
      THEN SubSeq(afterPrefix, 1, Len(afterPrefix) - Len(suffixTokens))
      ELSE afterPrefix

removeIdentifierPrefixesAndSuffixes(result) ==
  IF result.logFormat = None THEN result
  ELSE IF result.logFormat.identifierPrefix = <<>>
          /\ result.logFormat.identifierSuffix = <<>> THEN result
  ELSE [result EXCEPT
          !.logItems = [i \in 1..Len(result.logItems) |->
             unwrapLogItem(result.logItems[i], result.logFormat.identifierPrefix,
                           result.logFormat.identifierSuffix)]]

RECURSIVE removeNotInCodeBlocks(_, _, _)
removeNotInCodeBlocks(logItem, j, type) ==
  IF j > Len(logItem) THEN logItem
  ELSE
    LET codeBlock == getCodeBlockAt(logItem, j, 1, PARENS_EXT)
    IN  IF isCompleteCodeBlock(codeBlock)
        THEN removeNotInCodeBlocks(logItem, j + Len(codeBlock), type)
        ELSE IF logItem[j].type = type
        THEN removeNotInCodeBlocks(RemoveAt(logItem, j), j, type)
        ELSE removeNotInCodeBlocks(logItem, j + 1, type)

getRemoveTokensNotInCodeBlocksFn(type, result) ==
  [result EXCEPT
     !.logItems = [i \in 1..Len(result.logItems) |->
                     removeNotInCodeBlocks(result.logItems[i], 1, type)]]

removeEmptyLogItems(result) ==
  [result EXCEPT !.logItems = SelectSeq(result.logItems, LAMBDA logItem : Len(logItem) > 0)]

\* the steps of parseSequence after format detection, in order
parseSequenceAfterDetection(result) ==
  removeEmptyLogItems(
    getRemoveTokensNotInCodeBlocksFn(TOKEN_OPERATOR,
      getRemoveTokensNotInCodeBlocksFn(TOKEN_PUNCTUATION,
        removeIdentifierPrefixesAndSuffixes(
          collectLogItems(
            removeIdentifierStrings(
              detectLogId(
                removeLogSuffix(result))))))))

\* config.indexOf(format), 0-based
FormatIndexOf(config, format) ==
  LET hits == {i \in 1..Len(config) : config[i] = format}
  IN  IF hits = {} THEN -1 ELSE (CHOOSE i \in hits : \A j \in hits : i <= j) - 1

\* a rotator that re-renders in the format it found
sameFormatIndex(currentFormatIndex, n) == currentFormatIndex

\* the index rotatorFn moves to; the direction the caller passes is not a
\* parameter of rotatorFn
nextFormatIndex(currentFormatIndex, n) == (currentFormatIndex + 1) % n

\* rotatorFn: [kind, result, logged]; kind is "null" (the sentinel), "threw"
\* or "ok"; a ParseError of the sequence is caught, any other error is not
rotatorFn(config, tokens) ==
  LET start == ParseResult(tokens, <<>>, None, None)
      logged(rotated, made) ==
        [kind |-> IF made.threw THEN "threw" ELSE "ok",
         result |-> rotated, logged |-> made]
      rotate(rotated) == logged(rotated, log(rotated, None))
      parsed(result, currentFormatIndex) ==
        rotate([result EXCEPT
          !.logFormat = config[nextFormatIndex(currentFormatIndex, Len(config)) + 1]])
      detected(found) ==
        IF found.error = "ParseError"
        THEN [kind |-> "null", result |-> start, logged |-> NotLogged]
        ELSE IF found.error # "none"
        THEN [kind |-> "threw", result |-> start, logged |-> NotLogged]
        ELSE parsed(parseSequenceAfterDetection(found.result),
                    FormatIndexOf(config, found.result.logFormat))
  IN  detected(getDetectLogFormatFn(config, start))

\* validateLogFormat / validateLoggerConfig.  A configured value is given by the
\* typeof of each field; the message is [nr, text], nr the 1-based position.
FormatFields ==
  <<"logPrefix", "parameterSeparator", "identifierPrefix", "identifierSuffix",
    "logSuffix", "quoteCharacter", "insertSpaces">>

expectedType(field) == IF field = "insertSpaces" THEN "boolean" ELSE "string"

NoError == [nr |-> 0, text |-> "null"]

fieldError(field) ==
  IF field = "logPrefix" THEN "logPrefix not found or is not a string"
  ELSE IF field = "parameterSeparator" THEN "parameterSeparator not found or is not a string"
  ELSE IF field = "identifierPrefix" THEN "identifierPrefix not found or is not a string"
  ELSE IF field = "identifierSuffix" THEN "identifierSuffix not found or is not a string"
  ELSE IF field = "logSuffix" THEN "logSuffix not found or is not a string"
  ELSE IF field = "quoteCharacter" THEN "quoteCharacter not found or is not a string"
  ELSE "insertSpaces not found or is not a boolean"

RECURSIVE validateLogFormatFrom(_, _)
validateLogFormatFrom(typeofs, k) ==
  IF k > Len(FormatFields) THEN "null"
  ELSE IF typeofs[FormatFields[k]] # expectedType(FormatFields[k])
    THEN fieldError(FormatFields[k])
  ELSE validateLogFormatFrom(typeofs, k + 1)

\* a validation that looks at logPrefix only
validateLogPrefixOnly(typeofs) ==
  IF typeofs["logPrefix"] # "string" THEN fieldError("logPrefix") ELSE "null"

validateLogFormat(typeofs) == validateLogFormatFrom(typeofs, 1)

RECURSIVE validateLoggerConfigFrom(_, _)
validateLoggerConfigFrom(cfg, i) ==
  IF i > Len(cfg) THEN NoError
  ELSE IF validateLogFormat(cfg[i]) # "null"
    THEN [nr |-> i, text |-> validateLogFormat(cfg[i])]
  ELSE validateLoggerConfigFrom(cfg, i + 1)

validateLoggerConfig(cfg) == validateLoggerConfigFrom(cfg, 1)

(***************************************************************************)
(* Inputs: log formats, configurations, parse results and written lines.   *)
(***************************************************************************)
MaxItems == 2
MaxRotations == 3
MaxOverride == 2

Format(prefix, separator, idPrefix, idSuffix, suffix, quote, spaces) ==
  [insertSpaces |-> spaces, quoteCharacter |-> quote,
   parameterSeparator |-> separator, identifierPrefix |-> idPrefix,
   identifierSuffix |-> idSuffix, logPrefix |-> prefix, logSuffix |-> suffix]

CommaSpace == <<",", " ">>
PlusSpaced == <<" ", "+", " ">>
Apostrophe == <<"'">>

\* console.*-like formats: c.log( c.info( c.warn(
JsLog == Format(<<"c", ".", "l", "o", "g", "(">>, CommaSpace, <<>>, <<>>, <<")", ";">>, Apostrophe, FALSE)
JsInfo == Format(<<"c", ".", "i", "n", "f", "o", "(">>, CommaSpace, <<>>, <<>>, <<")", ";">>, Apostrophe, FALSE)
JsWarn == Format(<<"c", ".", "w", "a", "r", "n", "(">>, CommaSpace, <<>>, <<>>, <<")", ";">>, Apostrophe, FALSE)
\* the prefix of JsLog again, with another suffix
JsLogBare == Format(<<"c", ".", "l", "o", "g", "(">>, CommaSpace, <<>>, <<>>, <<")">>, Apostrophe, FALSE)
\* Console.WriteLine-like formats: padded keys, joined with +
CsWrite == Format(<<"W", "(">>, PlusSpaced, <<>>, <<>>, <<")", ";">>, DefaultQuote, TRUE)
CsDebug == Format(<<"D", "(">>, PlusSpaced, <<>>, <<>>, <<")", ";">>, DefaultQuote, TRUE)
\* a format that wraps every value in s(...)
Wrapped == Format(<<"p", "(">>, CommaSpace, <<"s", "(">>, <<")">>, <<")", ";">>, Apostrophe, FALSE)

JsConfig == <<JsLog, JsInfo, JsWarn>>
CsConfig == <<CsWrite, CsDebug>>
WrappedConfig == <<Wrapped, JsLog>>
RepeatedPrefixConfig == <<JsLog, JsInfo, JsLogBare>>

Configs == {JsConfig, CsConfig, WrappedConfig, RepeatedPrefixConfig}

Ident(v) == Tok(TOKEN_IDENTIFIER, v)

LongName == <<"a", "b", "c", "d", "e", "f", "g", "h", "i", "j", "k", "l", "m", "n", "o", "p", "q", "r", "s">>

\* identifier tokens a forward parse leaves: plain, chained (a.b) and long
ItemTokens == {Ident(<<"a">>), Ident(<<"a", ".", "b">>), Ident(LongName)}

\* log ids a forward parse (and ensureLogId) leaves
LogIds ==
  {Ident(<<"a">>), Ident(<<"f">>), Tok(TOKEN_KEYWORD, <<"i", "f">>),
   Tok(TOKEN_STRING, <<"L", "3">>)}

NoDuplicates(seq) == \A i, j \in 1..Len(seq) : i # j => seq[i] # seq[j]

RECURSIVE SeqsUpTo(_, _)
SeqsUpTo(S, n) ==
  IF n = 0 THEN {<<>>}
  ELSE LET shorter == SeqsUpTo(S, n - 1)
       IN  shorter \cup {Append(q, x) : q \in shorter, x \in S}

\* the results of the forward parser: single-token items without duplicates
ForwardResults ==
  {ParseResult(<<>>, [i \in 1..Len(q) |-> <<q[i]>>], id, None) :
     q \in {x \in SeqsUpTo(ItemTokens, MaxItems) : NoDuplicates(x)}, id \in LogIds}

Num(v) == Tok(TOKEN_NUMBER, v)
Punc(v) == Tok(TOKEN_PUNCTUATION, <<v>>)

\* lines a user wrote: [text, items], items the values the line logs
RawNonLog == [text |-> <<"x", "(", "1", ")", ";">>, items |-> <<>>]
RawSomeKeys ==
  [text |-> <<"c", ".", "l", "o", "g", "(", "1", ",", " ", "a", ",", " ", "'", "b", ":", "'", ",", " ", "b", ")", ";">>,
   items |-> << <<Num(<<"1">>)>>, <<Ident(<<"a">>)>>, <<Ident(<<"b">>)>> >>]
RawCall ==
  [text |-> <<"c", ".", "l", "o", "g", "(", "f", "(", "1", ",", " ", "2", ")", ")", ";">>,
   items |-> << <<Ident(<<"f">>), Punc("("), Num(<<"1">>), Punc(","),
                  Tok(TOKEN_WHITESPACE, <<" ">>), Num(<<"2">>), Punc(")")>> >>]
RawPadded ==
  [text |-> <<"W", "(", "1", " ", "+", " ", "\"", " ", "a", ":", " ", "\"", " ", "+", " ", "a", ")", ";">>,
   items |-> << <<Num(<<"1">>)>>, <<Ident(<<"a">>)>> >>]
RawNumber == [text |-> <<"c", ".", "w", "a", "r", "n", "(", "1", "2", ")", ";">>, items |-> << <<Num(<<"1", "2">>)>> >>]

RawChain ==
  [text |-> <<"c", ".", "l", "o", "g", "(", "a", ".", "b", ")", ";">>,
   items |-> << <<Ident(<<"a">>), Punc("."), Ident(<<"b">>)>> >>]

RawLines == {RawNonLog, RawSomeKeys, RawCall, RawPadded, RawNumber, RawChain}

(***************************************************************************)
(* State.                                                                  *)
(***************************************************************************)
VARIABLES
  config,     \* the LoggerConfig in use
  line,       \* the text of the line under the caret
  prev,       \* the text the last rotation was given
  op,         \* the last operation
  dir,        \* the direction the last rotation was asked for
  outcome,    \* "ok", "null" (not rotatable) or "threw"
  result,     \* the ParseResult handed to the last log call
  logged,     \* the last log call: [threw, format, useLogId, params, out]
  formatArg,  \* the format argument of the last log call
  fresh,      \* the statement as the Logger created it, while only rotated forward
  rotations,  \* rotations since the statement was created or written
  vals,       \* the values the statement was created or written to log
  override,   \* the user-supplied logFormats, as the typeof of each field
  errorMsg,   \* what validateLoggerConfig returned for it
  document,   \* the lines of the open document
  selections, \* the carets of the editor, as [line, character], 0-based
  logFormats, \* the logFormats setting: entries [typeofs, format]
  shown,      \* the error message the last command showed
  edits,      \* what the last log command did for each selection, in line order
  created,    \* the statements the log command has inserted or rotated in the document
  before,     \* the document before the last command
  command,    \* the last editor command: "none", "configure", "open", "log" or "remove"
  tkCaret,    \* the caret i of the cached tokenizer, 1-based
  tkInput,    \* the line the tokenizer was last given
  tkEarlier,  \* the line it was given before that
  tkOutput,   \* what the last tokenize call returned: [ok, tokens]
  tkCalls,    \* the tokenize calls made on the tokenizer
  utilCall,   \* the function last called on its own: its name
  utilArgs,   \* the arguments it was given
  utilOut,    \* what it did: [threw, value]
  magicItems, \* the cache of magic.ts: module name -> item, 0 where there is none
  getCalls,   \* the getMagicItem calls made, in the order they started
  cleared,    \* the clearCache calls made
  itemsMade   \* the MagicItem objects constructed

\* the state of the editor
editorVars == <<document, selections, logFormats, shown, edits, created, before, command>>

\* the state of one line's logging and rotation
lineVars ==
  <<config, line, prev, op, dir, outcome, result, logged, formatArg, fresh,
    rotations, vals, override, errorMsg>>

\* the state of the cached tokenizer and its caller
tokenizerVars == <<tkCaret, tkInput, tkEarlier, tkOutput, tkCalls>>

\* the last call of a function of util.ts, parser.ts or magic.ts on its own
utilVars == <<utilCall, utilArgs, utilOut>>

\* the state of the language cache and of the calls awaiting an import
cacheVars == <<magicItems, getCalls, cleared, itemsMade>>

vars == <<lineVars, editorVars, tokenizerVars, utilVars, cacheVars>>

NoResult == ParseResult(<<>>, <<>>, None, None)

\* the files of ./languages a module name can name
ModuleNames == {"javascript", "typescript", "csharp"}

Init ==
  /\ config \in Configs
  /\ line = <<>>
  /\ prev = <<>>
  /\ op = "init"
  /\ dir = 0
  /\ outcome = "none"
  /\ result = NoResult
  /\ logged = NotLogged
  /\ formatArg = None
  /\ fresh = <<>>
  /\ rotations = 0
  /\ vals = <<>>
  /\ override = <<>>
  /\ errorMsg = NoError
  /\ document = <<>>
  /\ selections = <<>>
  /\ logFormats = <<>>
  /\ shown = NoError
  /\ edits = <<>>
  /\ created = {}
  /\ before = <<>>
  /\ command = "none"
  /\ tkCaret = 1
  /\ tkInput = <<>>
  /\ tkEarlier = <<>>
  /\ tkOutput = [ok |-> TRUE, tokens |-> <<>>]
  /\ tkCalls = 0
  /\ utilCall = "none"
  /\ utilArgs = <<>>
  /\ utilOut = [threw |-> FALSE, value |-> <<>>]
  /\ magicItems = [moduleName \in ModuleNames |-> 0]
  /\ getCalls = <<>>
  /\ cleared = 0
  /\ itemsMade = 0

\* logMagic on a line the rotator does not recognise: the Logger bound to the
\* first format renders the forward-parse result
CreateLog(parseResult) ==
  \E made \in {createLogger(config[1], parseResult)} :
      /\ op' = "create"
      /\ prev' = <<>>
      /\ line' = made.out
      /\ dir' = 0
      /\ outcome' = "ok"
      /\ result' = parseResult
      /\ logged' = made
      /\ formatArg' = config[1]
      /\ fresh' = made.out
      /\ rotations' = 0
      /\ vals' = parseResult.logItems
      /\ UNCHANGED <<config, override, errorMsg, editorVars, tokenizerVars, utilVars, cacheVars>>

\* the user writes a line by hand
WriteLine(raw) ==
  /\ op' = "write"
  /\ prev' = <<>>
  /\ line' = raw.text
  /\ dir' = 0
  /\ outcome' = "none"
  /\ result' = NoResult
  /\ logged' = NotLogged
  /\ formatArg' = None
  /\ fresh' = <<>>
  /\ rotations' = 0
  /\ vals' = raw.items
  /\ UNCHANGED <<config, override, errorMsg, editorVars, tokenizerVars, utilVars, cacheVars>>

\* rotateLog(tokenize(line.trim()), logDirection) inside the try of logMagic;
\* the direction is passed and rotatorFn has no parameter for it
rotateLine(cfg, text, direction) ==
  LET tokenized(t) ==
        IF t.ok THEN rotatorFn(cfg, t.tokens)
        ELSE [kind |-> "threw", result |-> NoResult, logged |-> NotLogged]
  IN  tokenized(tokenize(text))

\* logMagic on a line: a statement replaces the line, null leaves it
RotateLog(direction) ==
  /\ op # "init"
  /\ rotations < MaxRotations
  /\ \E rotated \in {rotateLine(config, line, direction)} :
        /\ op' = "rotate"
        /\ dir' = direction
        /\ prev' = line
        /\ outcome' = rotated.kind
        /\ line' = IF rotated.kind = "ok" THEN rotated.logged.out ELSE line
        /\ result' = IF rotated.kind = "ok" THEN rotated.result ELSE NoResult
        /\ logged' = rotated.logged
        /\ formatArg' = None
        /\ fresh' = IF rotated.kind = "ok" /\ direction = 1 THEN fresh ELSE <<>>
        /\ rotations' = IF rotated.kind = "ok" THEN rotations + 1 ELSE rotations
        /\ UNCHANGED <<config, vals, override, errorMsg, editorVars, tokenizerVars, utilVars, cacheVars>>

Next ==
  \/ \E parseResult \in ForwardResults : CreateLog(parseResult)
  \/ \E raw \in RawLines : WriteLine(raw)
  \/ \E direction \in {1, -1} : RotateLog(direction)

Spec == Init /\ [][Next]_vars

(***************************************************************************)
(* The Logger called directly: log(parseResult, format).                   *)
(***************************************************************************)
\* parse results with and without a logFormat of their own
LogInputs ==
  {[r EXCEPT !.logFormat = f] : r \in ForwardResults, f \in {None, JsWarn, CsDebug}}
  \cup {ParseResult(<<>>, << <<Num(<<"1">>)>> >>, None, f) : f \in {None, JsWarn}}
  \cup {ParseResult(<<>>, <<>>, None, None)}

FormatArgs == {None, JsLog, CsWrite, Wrapped}

\* one call of log on a fresh line
LogCall(parseResult, format) ==
  /\ op = "init"
  /\ \E made \in {log(parseResult, format)} :
        /\ op' = "log"
        /\ prev' = <<>>
        /\ dir' = 0
        /\ result' = parseResult
        /\ formatArg' = format
        /\ logged' = made
        /\ outcome' = IF made.threw THEN "threw" ELSE "ok"
        /\ line' = made.out
        /\ fresh' = <<>>
        /\ rotations' = 0
        /\ vals' = parseResult.logItems
        /\ UNCHANGED <<config, override, errorMsg, editorVars, tokenizerVars, utilVars, cacheVars>>

NextLogger == \E parseResult \in LogInputs, format \in FormatArgs : LogCall(parseResult, format)

SpecLogger == Init /\ [][NextLogger]_vars

(***************************************************************************)
(* The logFormats setting, validated.                                      *)
(***************************************************************************)
ValidTypeofs == [field \in {FormatFields[k] : k \in 1..Len(FormatFields)} |-> expectedType(field)]

\* one field missing or holding the other type
OneFieldWrong ==
  {[ValidTypeofs EXCEPT ![FormatFields[k]] = t] :
     k \in 1..Len(FormatFields), t \in {"undefined", "boolean", "string"}}
  \ {ValidTypeofs}

TwoFieldsMissing ==
  {[ValidTypeofs EXCEPT ![pair[1]] = "undefined", ![pair[2]] = "undefined"] :
     pair \in {<<"logSuffix", "logPrefix">>, <<"insertSpaces", "parameterSeparator">>,
               <<"quoteCharacter", "identifierSuffix">>}}

OverrideFormats == {ValidTypeofs} \cup OneFieldWrong \cup TwoFieldsMissing

Overrides == SeqsUpTo(OverrideFormats, MaxOverride)

\* validateLoggerConfig(loggerConfigOverride), once the setting is read
Validate(cfg) ==
  /\ op = "init"
  /\ op' = "validate"
  /\ override' = cfg
  /\ errorMsg' = validateLoggerConfig(cfg)
  /\ UNCHANGED <<config, line, prev, dir, outcome, result, logged, formatArg,
                 fresh, rotations, vals, editorVars, tokenizerVars, utilVars, cacheVars>>

NextValidate == \E cfg \in Overrides : Validate(cfg)

SpecValidate == Init /\ [][NextValidate]_vars

(***************************************************************************)
(* The editor commands (extension.ts, magic.ts).  Lines and columns are    *)
(* 0-based, as in the editor; a document is the sequence of its lines.     *)
(***************************************************************************)
\* String.prototype.trimLeft, trimRight and trim, over the whitespace of a line
trimLeft(str) == SubSeq(str, readWhile(str, 1, WHITESPACE), Len(str))

trimRight(str) ==
  SubSeq(str, 1,
    CHOOSE e \in 0..Len(str) :
      /\ e = 0 \/ str[e] \notin WHITESPACE
      /\ \A k \in (e + 1)..Len(str) : str[k] \in WHITESPACE)

trim(str) == trimRight(trimLeft(str))

\* str.split(c).length - 1
Occurrences(str, c) == Cardinality({k \in 1..Len(str) : str[k] = c})

openingP == <<"{", "[", "(">>
closingP == <<"}", "]", ")">>

isOpeningCodeBlock(str) ==
  \E i \in 1..Len(openingP) : Occurrences(str, openingP[i]) > Occurrences(str, closingP[i])

isClosingCodeBlock(str) ==
  \E i \in 1..Len(openingP) : Occurrences(str, closingP[i]) > Occurrences(str, openingP[i])

\* the decimal digits of a natural number, as JavaScript prints it
DigitChars == <<"0", "1", "2", "3", "4", "5", "6", "7", "8", "9">>

RECURSIVE decimal(_)
decimal(n) ==
  IF n < 10 THEN <<DigitChars[n + 1]>>
  ELSE decimal(n \div 10) \o <<DigitChars[(n % 10) + 1]>>

\* ensureLogId: 'L' + lineNr + 2 appends to a string, left to right
ensureLogId(parseResult, lineNr) ==
  IF parseResult.logId = None
  THEN [parseResult EXCEPT
          !.logId = Tok(TOKEN_STRING, <<"L">> \o decimal(lineNr) \o decimal(2))]
  ELSE parseResult

\* createDefaultGetCaretPositionFn(loggerConfig)(logStatement)
getCaretPosition(loggerConfig, logStatement) ==
  IF \E i \in 1..Len(loggerConfig) : EndsWith(logStatement, loggerConfig[i].logSuffix)
  THEN Len(logStatement)
         - Len(loggerConfig[CHOOSE i \in 1..Len(loggerConfig) :
                 /\ EndsWith(logStatement, loggerConfig[i].logSuffix)
                 /\ \A j \in 1..(i - 1) : ~EndsWith(logStatement, loggerConfig[j].logSuffix)].logSuffix)
  ELSE Len(logStatement) - 1

\* createIsLogStatementFn(loggerConfig)(logStatement)
isLogStatement(loggerConfig, logStatement) ==
  \E i \in 1..Len(loggerConfig) :
    StartsWith(trimLeft(logStatement), trimLeft(loggerConfig[i].logPrefix))

\* editor.options: insertSpaces is on, tabSize is TabSize
TabSize == 2

\* getIndentStr(editor, n).length
getIndentStr(n) == n * TabSize

\* line.firstNonWhitespaceCharacterIndex
firstNonWhitespaceCharacterIndex(text) == readWhile(text, 1, WHITESPACE) - 1

\* Math.round of a quotient of naturals
Round(a, b) == ((2 * a) + b) \div (2 * b)

detectIndent(text) == Round(firstNonWhitespaceCharacterIndex(text), getIndentStr(1))

\* /^\s*[{[()]+\s*$/.test(text)
OnlyOpeningBrackets(text) ==
  /\ Len(trim(text)) > 0
  /\ \A k \in 1..Len(trim(text)) : trim(text)[k] \in {"{", "[", "(", ")"}

\* /^\s*[{[(]\s*$/.test(text)
OneOpeningBracket(text) == Len(trim(text)) = 1 /\ trim(text)[1] \in {"{", "[", "("}

\* findContentfulLine: the line number of the line it returns
findContentfulLine(doc, activeLine) ==
  CHOOSE j \in 0..activeLine :
    /\ j = 0 \/ ~OnlyOpeningBrackets(doc[j + 1])
    /\ \A k \in (j + 1)..activeLine : OnlyOpeningBrackets(doc[k + 1])

\* findAnchorLine: the line number of the line it returns
findAnchorLine(doc, activeLine, lineToLog, logDirection) ==
  IF logDirection = -1 THEN lineToLog
  ELSE IF activeLine > lineToLog THEN activeLine
  ELSE IF Len(doc) - 1 = activeLine THEN activeLine
  ELSE IF OneOpeningBracket(doc[lineToLog + 2]) THEN lineToLog + 1
  ELSE activeLine

\* getIndentForLogStatement(...).length
getIndentForLogStatement(doc, lineToLog, logAnchor, logDirection) ==
  getIndentStr(
    detectIndent(doc[lineToLog + 1])
    + (IF logDirection = 1 /\ isOpeningCodeBlock(doc[logAnchor + 1]) THEN 1
       ELSE IF logDirection = -1 /\ isClosingCodeBlock(doc[logAnchor + 1]) THEN 1
       ELSE 0))

\* the override the command builds from the logFormats setting, or None
validatedOverride(formats, msg) ==
  IF Len(formats) # 0 /\ msg = NoError
  THEN [log |-> formats[1].format,
        rotateLog |-> [i \in 1..Len(formats) |-> formats[i].format]]
  ELSE None

\* an override built without looking at the validation
uncheckedOverride(formats, msg) ==
  IF Len(formats) # 0
  THEN [log |-> formats[1].format,
        rotateLog |-> [i \in 1..Len(formats) |-> formats[i].format]]
  ELSE None

magicOverride(formats, msg) == validatedOverride(formats, msg)

\* validateLoggerConfig(loggerConfigOverride) on the setting
settingError(formats) == validateLoggerConfig([i \in 1..Len(formats) |-> formats[i].typeofs])

\* lines of the forward parser's tests, and what magic.parse leaves of them
LineAssign == <<"a", " ", "=", " ", "1">>
LineEmpty == <<>>

\* magic.parse(magic.tokenize(text)): 'foo = 1' logs foo, an empty line nothing
magicParse(text) ==
  IF text = LineAssign
  THEN ParseResult(<<>>, << <<Ident(<<"a">>)>> >>, Ident(<<"a">>), None)
  ELSE NoResult

Spaces(n) == [k \in 1..n |-> " "]

\* one pass of selections.forEach: what the try block did for a selection,
\* [kind, lineToLog, logAnchor, indent, logStatement, parsed]
logSelection(doc, activeLine, logDirection, magicOverrideItem, loggerConfig, lineNr) ==
  LET made(lineToLog, logAnchor, text, rotated) ==
        IF rotated.kind = "threw"
        THEN [kind |-> "failed", lineToLog |-> lineToLog, logAnchor |-> logAnchor,
              indent |-> 0, logStatement |-> <<>>, parsed |-> <<>>]
        ELSE IF rotated.kind = "ok"
        THEN [kind |-> "replace", lineToLog |-> lineToLog, logAnchor |-> logAnchor,
              indent |-> getIndentForLogStatement(doc, lineToLog, logAnchor, logDirection),
              logStatement |-> rotated.logged.out, parsed |-> <<>>]
        ELSE [kind |-> "insert", lineToLog |-> lineToLog, logAnchor |-> logAnchor,
              indent |-> getIndentForLogStatement(doc, lineToLog, logAnchor, logDirection),
              logStatement |->
                createLogger(IF magicOverrideItem # None THEN magicOverrideItem.log
                             ELSE loggerConfig[1],
                             ensureLogId(magicParse(text), lineNr)).out,
              parsed |-> text]
      at(lineToLog, text) ==
        made(lineToLog, findAnchorLine(doc, activeLine, lineToLog, logDirection), text,
             rotateLine(IF magicOverrideItem # None THEN magicOverrideItem.rotateLog
                        ELSE loggerConfig,
                        text, logDirection))
      on(lineToLog) == at(lineToLog, trim(doc[lineToLog + 1]))
  IN  on(findContentfulLine(doc, activeLine))

\* editedLine with replaceStatement writing as writeStatement does: the
\* rotated statement is inserted and the line stays
editedLineKept(doc, done, i, logDirection) ==
  (IF logDirection = -1
   THEN SelectSeq([k \in 1..Len(done) |->
                     IF done[k].kind # "failed" /\ done[k].logAnchor = i
                     THEN Spaces(done[k].indent) \o done[k].logStatement ELSE <<>>],
                  LAMBDA stmt : stmt # <<>>)
   ELSE <<>>)
  \o <<doc[i + 1]>>
  \o (IF logDirection = 1
      THEN SelectSeq([k \in 1..Len(done) |->
                        IF done[k].kind # "failed" /\ done[k].logAnchor = i
                        THEN Spaces(done[k].indent) \o done[k].logStatement ELSE <<>>],
                     LAMBDA stmt : stmt # <<>>)
      ELSE <<>>)

\* the lines one line of the document becomes when the edit is applied:
\* statements written before it, the line or its replacement, statements
\* written after it
editedLine(doc, done, i, logDirection) ==
  (IF logDirection = -1
   THEN SelectSeq([k \in 1..Len(done) |->
                     IF done[k].kind = "insert" /\ done[k].logAnchor = i
                     THEN Spaces(done[k].indent) \o done[k].logStatement ELSE <<>>],
                  LAMBDA stmt : stmt # <<>>)
   ELSE <<>>)
  \o (IF \E k \in 1..Len(done) : done[k].kind = "replace" /\ done[k].lineToLog = i
      THEN <<Spaces(done[CHOOSE k \in 1..Len(done) :
                           done[k].kind = "replace" /\ done[k].lineToLog = i].indent)
             \o done[CHOOSE k \in 1..Len(done) :
                       done[k].kind = "replace" /\ done[k].lineToLog = i].logStatement>>
      ELSE <<doc[i + 1]>>)
  \o (IF logDirection = 1
      THEN SelectSeq([k \in 1..Len(done) |->
                        IF done[k].kind = "insert" /\ done[k].logAnchor = i
                        THEN Spaces(done[k].indent) \o done[k].logStatement ELSE <<>>],
                     LAMBDA stmt : stmt # <<>>)
      ELSE <<>>)

\* editor.edit: the document after replaceStatement and writeStatement
editedDocument(doc, done, logDirection) ==
  Concat([i \in 1..Len(doc) |-> editedLine(doc, done, i - 1, logDirection)])

\* the selectionChanges callbacks, called with their index in the array
selectionChange(change, selectionIndex, logDirection, loggerConfig) ==
  [line |-> change.logAnchor + selectionIndex
              + (IF change.kind = "insert" THEN Max2(0, logDirection) ELSE 0),
   character |-> change.indent + getCaretPosition(loggerConfig, change.logStatement)]

movedCarets(changes, logDirection, loggerConfig) ==
  [i \in 1..Len(changes) |-> selectionChange(changes[i], i - 1, logDirection, loggerConfig)]

\* documents: an assignment, the same indented, an empty line, a line with a
\* character outside the grammar (written "EACUTE", one character) and a
\* statement of the first default format
MaxLines == 2

LineIndented == <<" ", " ">> \o LineAssign
LineBad == <<"a", " ", "=", " ", "EACUTE">>
LineLog ==
  <<"c", ".", "l", "o", "g", "(", "'", "a", ":", "'", ",", " ", "a", ")", ";">>

DocumentLines == {LineAssign, LineIndented, LineEmpty, LineBad, LineLog}

Documents == SeqsUpTo(DocumentLines, MaxLines) \ {<<>>}

\* one caret at the start of each line of a set, in line order
CaretsOn(lineNrs) ==
  [k \in 1..Cardinality(lineNrs) |->
     [line |-> CHOOSE n \in lineNrs : Cardinality({m \in lineNrs : m < n}) = k - 1,
      character |-> 0]]

\* logFormats settings: none, a valid one, and ones whose first or second
\* entry fails validation
Entry(typeofs, format) == [typeofs |-> typeofs, format |-> format]

ValidSetting == <<Entry(ValidTypeofs, Wrapped), Entry(ValidTypeofs, JsLog)>>
FirstEntryInvalid ==
  <<Entry([ValidTypeofs EXCEPT !["logSuffix"] = "undefined"], Wrapped),
    Entry(ValidTypeofs, JsLog)>>
SecondEntryInvalid ==
  <<Entry(ValidTypeofs, Wrapped),
    Entry([ValidTypeofs EXCEPT !["insertSpaces"] = "string"], JsLog)>>

Settings == {<<>>, ValidSetting, FirstEntryInvalid, SecondEntryInvalid}

\* the user sets logMagic.logFormats
Configure(formats) ==
  /\ command = "none"
  /\ command' = "configure"
  /\ logFormats' = formats
  /\ UNCHANGED <<lineVars, tokenizerVars, utilVars, cacheVars, document, selections, shown, edits, created, before>>

\* the user opens a document and places carets
OpenDocument(doc, lineNrs) ==
  /\ command \in {"none", "configure"}
  /\ command' = "open"
  /\ document' = doc
  /\ selections' = CaretsOn(lineNrs)
  /\ before' = <<>>
  /\ shown' = NoError
  /\ edits' = <<>>
  /\ created' = {}
  /\ UNCHANGED <<lineVars, tokenizerVars, utilVars, cacheVars, logFormats>>

\* logMagic, for logmagic.logDown (1) and logmagic.logUp (-1); editor.selection,
\* whose line ensureLogId is given, is one of the selections
LogMagic(logDirection) ==
  /\ command = "open"
  /\ \E primary \in 1..Len(selections) :
       \E done \in {[k \in 1..Len(selections) |->
                      logSelection(document, selections[k].line, logDirection,
                                   magicOverride(logFormats, settingError(logFormats)),
                                   config, selections[primary].line)]} :
          /\ command' = "log"
          /\ before' = document
          /\ shown' = IF Len(logFormats) # 0 THEN settingError(logFormats) ELSE NoError
          /\ edits' = [k \in 1..Len(done) |-> [logDirection |-> logDirection, did |-> done[k]]]
          /\ document' = editedDocument(document, done, logDirection)
          /\ selections' =
               movedCarets(SelectSeq(done, LAMBDA change : change.kind # "failed"),
                           logDirection, config)
          /\ created' =
               created \cup {Spaces(done[k].indent) \o done[k].logStatement :
                               k \in {j \in 1..Len(done) : done[j].kind # "failed"}}
          /\ UNCHANGED <<lineVars, tokenizerVars, utilVars, cacheVars, logFormats>>

\* what removeAllLogStatements leaves: the last line has no line break to
\* delete, so an empty line stays in its place
withoutLogStatements(loggerConfig, doc) ==
  SelectSeq(doc, LAMBDA text : ~isLogStatement(loggerConfig, text))
  \o (IF Len(doc) # 0 /\ isLogStatement(loggerConfig, doc[Len(doc)]) THEN <<LineEmpty>> ELSE <<>>)

RemoveAllLogStatements ==
  /\ command \in {"open", "log"}
  /\ command' = "remove"
  /\ before' = document
  /\ document' = withoutLogStatements(config, document)
  /\ UNCHANGED <<lineVars, tokenizerVars, utilVars, cacheVars, selections, logFormats, shown, edits, created>>

NextEditor ==
  \/ \E formats \in Settings : Configure(formats)
  \/ \E doc \in Documents : \E lineNrs \in (SUBSET (0..(Len(doc) - 1))) \ {{}} :
       OpenDocument(doc, lineNrs)
  \/ \E logDirection \in {1, -1} : LogMagic(logDirection)
  \/ RemoveAllLogStatements

InitEditor == Init /\ config = JsConfig

SpecEditor == InitEditor /\ [][NextEditor]_vars

(***************************************************************************)
(* A tokenizer kept in the language cache and called line after line.      *)
(***************************************************************************)
MaxCalls == 3

\* a character outside the grammar after a comment that is closed
LineBadAfterComment == <<"/", "*", "EACUTE", "*", "/", " ", "EACUTE">>
\* characters outside the grammar inside a string and inside a comment
LineBadInString == <<"a", " ", "=", " ", "'", "EACUTE", "'">>
LineBadInComment == <<"a", " ", "/", "/", " ", "EACUTE">>
\* a string that is not closed
LineOpenString == <<"a", " ", "=", " ", "'", "b">>
\* one token more than the loop of tokenize reads
LineLong == [k \in 1..(MaxTokenizeSteps + 1) |-> ";"]

TokenizerLines ==
  {LineAssign, LineEmpty, LineBad, LineLog, LineBadAfterComment, LineBadInString,
   LineBadInComment, LineOpenString, LineLong}

\* magic.tokenize(text) on the cached tokenizer; the long line comes first
Tokenize(text) ==
  /\ tkCalls < MaxCalls
  /\ text = LineLong => tkCalls = 0
  /\ \E made \in {cachedTokenize(text, tkCaret)} :
        /\ tkOutput' = made.out
        /\ tkCaret' = made.i
        /\ tkInput' = text
        /\ tkEarlier' = tkInput
        /\ tkCalls' = tkCalls + 1
        /\ UNCHANGED <<lineVars, editorVars, utilVars, cacheVars>>

NextTokenizer == \E text \in TokenizerLines : Tokenize(text)

SpecTokenizer == Init /\ [][NextTokenizer]_vars

(***************************************************************************)
(* Functions of util.ts, parser.ts and magic.ts called on their own.       *)
(***************************************************************************)
\* common.removeWhitespace
removeWhitespace(tokens) == SelectSeq(tokens, LAMBDA t : t.type # TOKEN_WHITESPACE)

BREAK_CHARS == <<",", ";">>

isExpressionBreak(t) == t.type = TOKEN_PUNCTUATION /\ Includes(BREAK_CHARS, t.value)

isExpressionBreakByParen(t, direction) ==
  /\ t.type = TOKEN_PUNCTUATION
  /\ \/ direction = 1 /\ Includes(closingP, t.value)
     \/ direction = -1 /\ Includes(openingP, t.value)

\* P of getExpressionAt is the string of PARENS
isParen(t) == t.type = TOKEN_PUNCTUATION /\ Includes(PARENS, t.value)

\* the loop of getExpressionAt from the 1-based index i
RECURSIVE expressionWalk(_, _, _, _)
expressionWalk(tokens, i, direction, includedTokens) ==
  IF ~(i >= 1 /\ i <= Len(tokens)) THEN includedTokens
  ELSE IF isExpressionBreak(tokens[i]) THEN includedTokens
  ELSE IF isExpressionBreakByParen(tokens[i], direction) THEN includedTokens
  ELSE IF isParen(tokens[i])
  THEN expressionWalk(tokens,
                      i + (Len(getCodeBlockAt(tokens, i, direction, PARENS)) - 1) * direction
                        + direction,
                      direction,
                      includedTokens \o getCodeBlockAt(tokens, i, direction, PARENS))
  ELSE expressionWalk(tokens, i + direction, direction, Append(includedTokens, tokens[i]))

\* getExpressionAt: throws when the token at startIndex is , or ;
getExpressionAt(tokens, startIndex, direction) ==
  IF isExpressionBreak(tokens[startIndex])
  THEN [threw |-> TRUE, tokens |-> <<>>]
  ELSE [threw |-> FALSE,
        tokens |-> expressionWalk(tokens, startIndex + direction, direction,
                                  <<tokens[startIndex]>>)]

LambdaOperator == <<"=", ">">>

\* findNextLambdaOperatorIndex, 0-based; -1 when there is none
findNextLambdaOperatorIndex(tokens, fromIndex) ==
  LET found == {i \in 0..(Len(tokens) - 1) :
                  /\ i >= fromIndex
                  /\ tokens[i + 1].type = TOKEN_OPERATOR
                  /\ tokens[i + 1].value = LambdaOperator}
  IN  IF found = {} THEN -1 ELSE CHOOSE i \in found : \A j \in found : i <= j

isOpeningBrace(t) == t.type = TOKEN_PUNCTUATION /\ t.value = <<"{">>

\* the end of the lambda at the 0-based operatorIndex: [threw, endIndex]
lambdaEndIndex(tokens, operatorIndex) ==
  IF operatorIndex + 2 > Len(tokens)
  THEN [threw |-> FALSE, endIndex |-> operatorIndex]
  ELSE IF isOpeningBrace(tokens[operatorIndex + 2])
  THEN [threw |-> FALSE,
        endIndex |-> operatorIndex + Len(getCodeBlockAt(tokens, operatorIndex + 2, 1, PARENS))]
  ELSE IF getExpressionAt(tokens, operatorIndex + 2, 1).threw
  THEN [threw |-> TRUE, endIndex |-> operatorIndex]
  ELSE [threw |-> FALSE,
        endIndex |-> operatorIndex + Len(getExpressionAt(tokens, operatorIndex + 2, 1).tokens)]

\* the start of the lambda at the 0-based operatorIndex, which is at least 1
lambdaStartIndex(tokens, operatorIndex) ==
  IF tokens[operatorIndex].type = TOKEN_PUNCTUATION /\ tokens[operatorIndex].value = <<")">>
  THEN operatorIndex - Len(getCodeBlockAt(tokens, operatorIndex, -1, PARENS))
  ELSE IF tokens[operatorIndex].type = TOKEN_IDENTIFIER THEN operatorIndex - 1
  ELSE operatorIndex

\* tokens.splice(start, deleteCount), start 0-based
splice(tokens, start, deleteCount) ==
  SubSeq(tokens, 1, start) \o SubSeq(tokens, start + deleteCount + 1, Len(tokens))

LambdaLoopCeiling == 9999

\* the loop of common.removeLambdas: [threw, tokens]
RECURSIVE removeLambdasFrom(_, _, _)
removeLambdasFrom(tokens, skippedLambdaIndex, q) ==
  LET spliced(operatorIndex, endIndex) ==
        removeLambdasFrom(
          splice(tokens, lambdaStartIndex(tokens, operatorIndex),
                 endIndex - lambdaStartIndex(tokens, operatorIndex) + 1),
          skippedLambdaIndex, q + 1)
      ended(operatorIndex, end) ==
        IF end.threw THEN [threw |-> TRUE, tokens |-> tokens]
        ELSE IF end.endIndex = operatorIndex \/ isOpeningBrace(tokens[end.endIndex + 1])
        THEN removeLambdasFrom(tokens, operatorIndex, q + 1)
        ELSE spliced(operatorIndex, end.endIndex)
      at(operatorIndex) ==
        IF operatorIndex = -1 THEN [threw |-> FALSE, tokens |-> tokens]
        ELSE ended(operatorIndex, lambdaEndIndex(tokens, operatorIndex))
  IN  IF q >= LambdaLoopCeiling THEN [threw |-> FALSE, tokens |-> tokens]
      ELSE at(findNextLambdaOperatorIndex(tokens, skippedLambdaIndex + 1))

removeLambdas(tokens) == removeLambdasFrom(tokens, 0, 0)

\* lines with a lambda operator: followed by an expression, a block, an open
\* block, nothing, a comma, a semicolon and a closing delimiter; and lines with
\* an open block that ends the line, that has tokens after it, and that has a
\* later lambda inside it
LambdaLines ==
  {<<"a", " ", "=", ">", " ", "b">>,
   <<"f", "(", "a", " ", "=", ">", " ", "a", ".", "b", ",", " ", "c", ")">>,
   <<"(", "a", ")", " ", "=", ">", " ", "{", " ", "b", " ", "}">>,
   <<"a", " ", "=", ">", " ", "{">>,
   <<"a", " ", "=", ">">>,
   <<"a", " ", "=", ">", ",", " ", "b">>,
   <<"x", " ", "=", " ", "a", " ", "=", ">", " ", ";">>,
   <<"f", "(", "a", " ", "=", ">", " ", ")">>,
   <<"a", " ", "=", " ", "1">>,
   <<"a", " ", "=", ">", " ", "{", " ", "b">>,
   <<"f", "(", "(", "a", ",", " ", "b", ")", " ", "=", ">", " ", "{">>,
   <<"a", " ", "=", ">", " ", "{", " ", "f", "(", "b", " ", "=", ">", " ", "c", ")", " ", "{">>,
   <<"x", " ", "=", " ", "a", " ", "=", ">", " ", "{", " ", "r", " ", "b">>}

\* parse(tokenize(text)) as far as removeLambdas: removeWhitespace, then removeLambdas
RemoveLambdas(text) ==
  /\ utilCall = "none"
  /\ tokenize(text).ok
  /\ \E done \in {removeLambdas(removeWhitespace(tokenize(text).tokens))} :
        /\ utilCall' = "removeLambdas"
        /\ utilArgs' = removeWhitespace(tokenize(text).tokens)
        /\ utilOut' = [threw |-> done.threw, value |-> done.tokens]
        /\ UNCHANGED <<lineVars, editorVars, tokenizerVars, cacheVars>>

\* string values with no, one, two and three quotation marks of either kind
QuotedValues ==
  {<<>>, <<"a">>, <<"a", "'", "b">>, <<"'">>, <<"'", "'">>,
   <<"i", "t", "'", "s", " ", "B", "o", "b", "'", "s">>,
   <<"\"", "a", "\"">>, <<"a", "'", "b", "'", "c", "'">>, <<"\"", "a", "'", "b", "\"">>,
   <<"a", "\\", "b">>}

SerializeTokens ==
  {Tok(TOKEN_STRING, v) : v \in QuotedValues}
  \cup {Tok(type, v) : type \in {TOKEN_IDENTIFIER, TOKEN_COMMENT, TOKEN_OPERATOR},
                       v \in {<<"a">>, <<"a", "'", "b", "'">>, <<"\"", "\"">>}}

\* serializeToken(token, quoteChar)
SerializeToken(token, quoteChar) ==
  /\ utilCall = "none"
  /\ utilCall' = "serializeToken"
  /\ utilArgs' = [token |-> token, quoteChar |-> quoteChar]
  /\ utilOut' = [threw |-> FALSE, value |-> serializeToken(token, quoteChar)]
  /\ UNCHANGED <<lineVars, editorVars, tokenizerVars, cacheVars>>

\* echo ...; and d(...); : the suffix of the first format ends the second's
EchoLine == Format(<<"e", "c", "h", "o", " ">>, CommaSpace, <<>>, <<>>, <<";">>, Apostrophe, FALSE)
DumpCall == Format(<<"d", "(">>, CommaSpace, <<>>, <<>>, <<")", ";">>, Apostrophe, FALSE)
EchoConfig == <<EchoLine, DumpCall>>

CaretConfigs == Configs \cup {EchoConfig}

\* createDefaultGetCaretPositionFn(loggerConfig) called with a statement that
\* createLogger(loggerConfig[k]) rendered
GetCaretPosition(loggerConfig, k, parseResult) ==
  /\ utilCall = "none"
  /\ \E made \in {createLogger(loggerConfig[k], parseResult)} :
        /\ ~made.threw
        /\ utilCall' = "getCaretPosition"
        /\ utilArgs' = [loggerConfig |-> loggerConfig, format |-> loggerConfig[k],
                        logStatement |-> made.out]
        /\ utilOut' = [threw |-> FALSE, value |-> getCaretPosition(loggerConfig, made.out)]
        /\ UNCHANGED <<lineVars, editorVars, tokenizerVars, cacheVars>>

MaxLineNr == 11

\* parse results with a log id, and the same with none
EnsureInputs == {r \in ForwardResults : Len(r.logItems) <= 1} \cup {NoResult}
                  \cup {[r EXCEPT !.logId = None] : r \in {x \in ForwardResults : Len(x.logItems) <= 1}}

\* ensureLogId(parseResult, lineNr)
EnsureLogId(parseResult, lineNr) ==
  /\ utilCall = "none"
  /\ utilCall' = "ensureLogId"
  /\ utilArgs' = [parseResult |-> parseResult, lineNr |-> lineNr]
  /\ utilOut' = [threw |-> FALSE, value |-> ensureLogId(parseResult, lineNr)]
  /\ UNCHANGED <<lineVars, editorVars, tokenizerVars, cacheVars>>

\* LOG_ID_KEYWORDS of javascript.ts
LOG_ID_KEYWORDS ==
  {<<"i", "f">>,
   <<"e", "l", "s", "e", " ", "i", "f">>,
   <<"e", "l", "s", "e">>,
   <<"s", "w", "i", "t", "c", "h">>,
   <<"c", "a", "s", "e">>,
   <<"r", "e", "t", "u", "r", "n">>,
   <<"f", "o", "r">>,
   <<"w", "h", "i", "l", "e">>,
   <<"d", "o">>,
   <<"y", "i", "e", "l", "d">>,
   <<"c", "o", "n", "t", "i", "n", "u", "e">>,
   <<"b", "r", "e", "a", "k">>}

\* the test of the loop of getSetDefaultIdFn on one token
isDefaultId(interestingKeywords, t) ==
  \/ t.type = TOKEN_KEYWORD /\ serializeToken(t, DefaultQuote) \in interestingKeywords
  \/ t.type = TOKEN_IDENTIFIER
  \/ t.type = TOKEN_STRING

\* a log id chosen by category first and position second: the first
\* interesting keyword, else the first identifier, else the first string
setDefaultIdByPriority(interestingKeywords, parseResult) ==
  LET first(S) == CHOOSE i \in S : \A j \in S : i <= j
      keywords == {i \in 1..Len(parseResult.tokens) :
                     /\ parseResult.tokens[i].type = TOKEN_KEYWORD
                     /\ serializeToken(parseResult.tokens[i], DefaultQuote) \in interestingKeywords}
      ofType(type) == {i \in 1..Len(parseResult.tokens) : parseResult.tokens[i].type = type}
  IN  IF keywords # {} THEN [parseResult EXCEPT !.logId = parseResult.tokens[first(keywords)]]
      ELSE IF ofType(TOKEN_IDENTIFIER) # {}
      THEN [parseResult EXCEPT !.logId = parseResult.tokens[first(ofType(TOKEN_IDENTIFIER))]]
      ELSE IF ofType(TOKEN_STRING) # {}
      THEN [parseResult EXCEPT !.logId = parseResult.tokens[first(ofType(TOKEN_STRING))]]
      ELSE parseResult

\* common.getSetDefaultIdFn(interestingKeywords)(result): the loop returns at
\* the first token that passes the test
getSetDefaultIdFn(interestingKeywords, parseResult) ==
  IF \E i \in 1..Len(parseResult.tokens) : isDefaultId(interestingKeywords, parseResult.tokens[i])
  THEN [parseResult EXCEPT
          !.logId = parseResult.tokens[CHOOSE i \in 1..Len(parseResult.tokens) :
                      /\ isDefaultId(interestingKeywords, parseResult.tokens[i])
                      /\ \A j \in 1..(i - 1) :
                           ~isDefaultId(interestingKeywords, parseResult.tokens[j])]]
  ELSE parseResult

MaxStream == 3

\* tokens of a stream after the earlier steps: an interesting keyword, another
\* keyword, an identifier, a string, a number and a punctuation mark
StreamTokens ==
  {Tok(TOKEN_KEYWORD, <<"i", "f">>), Tok(TOKEN_KEYWORD, <<"n", "e", "w">>),
   Ident(<<"a">>), Tok(TOKEN_STRING, <<"s">>), Num(<<"1">>), Punc("(")}

Streams == SeqsUpTo(StreamTokens, MaxStream)

\* the step on the result createParser made of a stream
SetDefaultId(tokens) ==
  /\ utilCall = "none"
  /\ utilCall' = "setDefaultId"
  /\ utilArgs' = ParseResult(tokens, <<>>, None, None)
  /\ utilOut' = [threw |-> FALSE,
                 value |-> getSetDefaultIdFn(LOG_ID_KEYWORDS, ParseResult(tokens, <<>>, None, None))]
  /\ UNCHANGED <<lineVars, editorVars, tokenizerVars, cacheVars>>

\* what stands between the logPrefix and the logSuffix of a statement: plain
\* items, items with blocks of each pair, an open block, and closers that
\* stand before openers
ItemLines ==
  {<<"a", ",", " ", "b">>,
   <<"f", "(", "a", ",", " ", "b", ")", ",", " ", "c">>,
   <<"m", "<", "a", ",", " ", "b", ">">>,
   <<"a", ")", ",", " ", "x", "(", "b">>,
   <<"a", " ", ">", " ", "b", ",", " ", "c", " ", "<", " ", "d">>,
   <<"[", "a", ",", " ", "{", "b", ",", " ", "c", "}", "]", ",", " ", "d">>,
   <<"(", "a", ",", " ", "b">>,
   <<"a", "}", ",", " ", "{", "b">>,
   <<"a">>,
   <<"f", "(", "a", ",", " ", "b", ")">>}

\* collectLogItems' generator on the tokens of a line, for the separator ', '
GetTokensUntilSeparator(text) ==
  /\ utilCall = "none"
  /\ tokenize(text).ok
  /\ utilCall' = "getTokensUntilSeparator"
  /\ utilArgs' = [tokens |-> tokenize(text).tokens, separator |-> CommaSpace]
  /\ utilOut' = [threw |-> FALSE,
                 value |-> getTokensUntilSeparator(tokenize(text).tokens, CommaSpace)]
  /\ UNCHANGED <<lineVars, editorVars, tokenizerVars, cacheVars>>

\* the [...] block stays in the stream
noBlockKept(block) == FALSE

\* block.find((t) => t.type === TOKEN_IDENTIFIER): the [...] block stays in
\* the stream when it holds an identifier
blockKept(block) == \E k \in 1..Len(block) : block[k].type = TOKEN_IDENTIFIER

\* the inner loop of combineBracketNotation for the identifier at i, from j
\* (both 1-based)
RECURSIVE bracketsFrom(_, _, _)
bracketsFrom(tokens, i, j) ==
  LET combined(block) ==
        [tokens EXCEPT ![i].value = tokens[i].value \o serializeTokens(block, DefaultQuote)]
      with(block) ==
        IF ~isCompleteCodeBlock(block) THEN tokens
        ELSE IF ~blockKept(block)
        THEN bracketsFrom(splice(combined(block), j - 1, Len(block)), i, j)
        ELSE bracketsFrom(combined(block), i, j + Len(block))
  IN  IF j > Len(tokens) THEN tokens
      ELSE IF tokens[j].type # TOKEN_PUNCTUATION \/ tokens[j].value # <<"[">> THEN tokens
      ELSE with(getCodeBlockAt(tokens, j, 1, PARENS))

\* the outer loop, from the 1-based i: for (i = 0; i < tokens.length - 3; i++)
RECURSIVE combineBracketNotationFrom(_, _)
combineBracketNotationFrom(tokens, i) ==
  IF ~(i - 1 < Len(tokens) - 3) THEN tokens
  ELSE IF tokens[i].type # TOKEN_IDENTIFIER THEN combineBracketNotationFrom(tokens, i + 1)
  ELSE combineBracketNotationFrom(bracketsFrom(tokens, i, i + 1), i + 1)

\* common.combineBracketNotation
combineBracketNotation(tokens) == combineBracketNotationFrom(tokens, 1)

\* lines with bracket notation: blocks of literals, blocks holding an
\* identifier, chained and nested blocks, an open block and an empty one
BracketLines ==
  {<<"a", "[", "1", "]">>,
   <<"a", "[", "b", "]">>,
   <<"x", " ", "=", " ", "a", "[", "1", "]", "[", "2", "]">>,
   <<"a", "[", "b", ".", "c", "]">>,
   <<"a", "[", "]">>,
   <<"a", "[", "b", "]", "[", "1", "]">>,
   <<"a", "[", "1">>,
   <<"f", "(", "a", "[", "1", "]", ",", " ", "c", "[", "d", "]", ")">>,
   <<"a", "[", "b", "[", "1", "]", "]">>,
   <<"a", " ", "=", " ", "1">>,
   <<"a", "[", "'", "k", "'", "]">>,
   <<"x", " ", "=", " ", "a", "[", "]", " ", "+", " ", "1">>}

\* the loop of removeTypes of csharp.ts over the 0-based index i: a complete
\* <...> block of identifiers and commas is spliced out, and the index moves on
RECURSIVE removeTypeBlocksFrom(_, _)
removeTypeBlocksFrom(tokens, i) ==
  IF i >= Len(tokens) THEN tokens
  ELSE IF tokens[i + 1] # Tok(TOKEN_OPERATOR, <<"<">>)
  THEN removeTypeBlocksFrom(tokens, i + 1)
  ELSE
    LET block == getCodeBlockAt(tokens, i + 1, 1, PARENS_EXT)
    IN  IF ~isCompleteCodeBlock(block) THEN removeTypeBlocksFrom(tokens, i + 1)
        ELSE IF ~\A k \in 1..Len(block) :
                   \/ k = 1 \/ k = Len(block)
                   \/ block[k].type = TOKEN_IDENTIFIER
                   \/ block[k] = Punc(",")
        THEN removeTypeBlocksFrom(tokens, i + 1)
        ELSE removeTypeBlocksFrom(splice(tokens, i, Len(block)), i + 1)

\* result.tokens.filter(...): of consecutive identifiers only the last stays
lastOfConsecutiveIdentifiers(tokens) ==
  SelectSeq([k \in 1..Len(tokens) |-> [at |-> k, token |-> tokens[k]]],
            LAMBDA e : \/ e.token.type # TOKEN_IDENTIFIER
                       \/ e.at = Len(tokens)
                       \/ tokens[e.at + 1].type # TOKEN_IDENTIFIER)

removeTypes(tokens) ==
  LET kept == lastOfConsecutiveIdentifiers(removeTypeBlocksFrom(tokens, 0))
  IN  [k \in 1..Len(kept) |-> kept[k].token]

LOGICAL_OPERATORS == {<<"&", "&">>, <<"|", "|">>}

\* the loop of removeGenerics of typescript.ts over the 0-based index i
RECURSIVE removeGenericsFrom(_, _)
removeGenericsFrom(tokens, i) ==
  IF i >= Len(tokens) THEN tokens
  ELSE IF tokens[i + 1] # Tok(TOKEN_OPERATOR, <<"<">>)
  THEN removeGenericsFrom(tokens, i + 1)
  ELSE
    LET block == getCodeBlockAt(tokens, i + 1, 1, PARENS_EXT)
    IN  IF ~isCompleteCodeBlock(block) THEN removeGenericsFrom(tokens, i + 1)
        ELSE IF \E k \in 1..Len(block) :
                  block[k].type = TOKEN_OPERATOR /\ block[k].value \in LOGICAL_OPERATORS
        THEN removeGenericsFrom(tokens, i + 1)
        ELSE removeGenericsFrom(splice(tokens, i, Len(block)), i + 1)

removeGenerics(tokens) == removeGenericsFrom(tokens, 0)

\* lines with a generic argument list, a comparison, two comparisons, and
\* <...> blocks that hold an operator, a number and a logical operator
GenericLines ==
  {<<"a", " ", "<", " ", "b">>,
   <<"F", "<", "T", ">", "(", ")">>,
   <<"T", " ", "a", " ", "=", " ", "F", "<", "T", ",", " ", "U", ">", "(", ")">>,
   <<"a", "<", "b", " ", "+", " ", "1", ">", "c">>,
   <<"a", "<", "1", ">", "b">>,
   <<"a", " ", "<", " ", "b", " ", "&", "&", " ", "c", " ", ">", " ", "d">>,
   <<"a", " ", "<", " ", "b", ",", " ", "c", " ", ">", " ", "d">>,
   <<"M", "<", "K", ",", " ", "L", "<", "V", ">", ">", " ", "m">>,
   <<"a", " ", "=", " ", "1">>}

\* parse(tokenize(text)) of csharp.ts as far as removeTypes
RemoveTypes(text) ==
  /\ utilCall = "none"
  /\ tokenize(text).ok
  /\ utilCall' = "removeTypes"
  /\ utilArgs' = removeWhitespace(tokenize(text).tokens)
  /\ utilOut' = [threw |-> FALSE,
                 value |-> removeTypes(removeWhitespace(tokenize(text).tokens))]
  /\ UNCHANGED <<lineVars, editorVars, tokenizerVars, cacheVars>>

\* parse(tokenize(text)) of typescript.ts as far as removeGenerics
RemoveGenerics(text) ==
  /\ utilCall = "none"
  /\ tokenize(text).ok
  /\ utilCall' = "removeGenerics"
  /\ utilArgs' = removeWhitespace(tokenize(text).tokens)
  /\ utilOut' = [threw |-> FALSE,
                 value |-> removeGenerics(removeWhitespace(tokenize(text).tokens))]
  /\ UNCHANGED <<lineVars, editorVars, tokenizerVars, cacheVars>>

\* isChainLink[n % 2] of getCombineConsecutiveTokensOfTypeFn
isChainLink(n, t, typesToChain, allowedSeparators) ==
  IF n % 2 = 0 THEN t.type \in typesToChain
  ELSE serializeToken(t, DefaultQuote) \in allowedSeparators

\* the tokens from j (1-based) on that are the next links of the chain
RECURSIVE chainFrom(_, _, _, _, _)
chainFrom(tokens, j, tokenChain, typesToChain, allowedSeparators) ==
  IF j > Len(tokens) THEN tokenChain
  ELSE IF isChainLink(Len(tokenChain), tokens[j], typesToChain, allowedSeparators)
  THEN chainFrom(tokens, j + 1, Append(tokenChain, tokens[j]), typesToChain, allowedSeparators)
  ELSE tokenChain

\* a chain that keeps the separator it ends with
chainKept(tokenChain, allowedSeparators) == tokenChain

\* tokenChain.pop() when the chain ends with a separator
chainEnd(tokenChain, allowedSeparators) ==
  IF Len(tokenChain) > 0
     /\ isChainLink(1, tokenChain[Len(tokenChain)], {}, allowedSeparators)
  THEN SubSeq(tokenChain, 1, Len(tokenChain) - 1)
  ELSE tokenChain

\* the first of the given prefixes or suffixes that matches at index (1-based)
RECURSIVE firstMatching(_, _, _, _)
firstMatching(tokens, allowed, index, j) ==
  IF j > Len(allowed) THEN <<>>
  ELSE IF Len(getMatchingTokens(tokens, allowed[j], index, 1)) # 0
  THEN getMatchingTokens(tokens, allowed[j], index, 1)
  ELSE firstMatching(tokens, allowed, index, j + 1)

\* the loop of getCombineConsecutiveTokensOfTypeFn over the 0-based index i
RECURSIVE combineChainsFrom(_, _, _, _, _, _, _)
combineChainsFrom(tokens, i, typesToChain, newType, allowedSeparators, allowedPrefixes, allowedSuffixes) ==
  IF i >= Len(tokens) THEN tokens
  ELSE
    LET prefixTokens == firstMatching(tokens, allowedPrefixes, i + 1, 1)
        tokenChain ==
          chainEnd(chainFrom(tokens, i + 1 + Len(prefixTokens), <<>>,
                             typesToChain, allowedSeparators),
                   allowedSeparators)
        suffixTokens ==
          firstMatching(tokens, allowedSuffixes,
                        i + 1 + Len(prefixTokens) + Len(tokenChain), 1)
        combined ==
          Tok(newType, serializeTokens(prefixTokens \o tokenChain \o suffixTokens, DefaultQuote))
    IN  IF Len(tokenChain) < 2
        THEN combineChainsFrom(tokens, i + 1, typesToChain, newType,
                               allowedSeparators, allowedPrefixes, allowedSuffixes)
        ELSE combineChainsFrom(
               splice([tokens EXCEPT ![i + 1] = combined], i + 1,
                      Len(prefixTokens) + Len(tokenChain) + Len(suffixTokens) - 1),
               i + 1, typesToChain, newType,
               allowedSeparators, allowedPrefixes, allowedSuffixes)

getCombineConsecutiveTokensOfTypeFn(typesToChain, newType, allowedSeparators, allowedPrefixes, allowedSuffixes, tokens) ==
  combineChainsFrom(tokens, 0, typesToChain, newType, allowedSeparators,
                    allowedPrefixes, allowedSuffixes)

IDENTIFIER_CHAIN_CHARS == {<<".">>}

MaxChain == 5

\* tokens of a stream before the chains are combined: an identifier, a keyword,
\* the separator, another punctuation mark and a string that holds the separator
ChainTokens ==
  {Ident(<<"a">>), Tok(TOKEN_KEYWORD, <<"n", "e", "w">>), Punc("."), Punc(","),
   Tok(TOKEN_STRING, <<".">>)}

ChainStreams == SeqsUpTo(ChainTokens, MaxChain)

\* the step of parseSequence that combines identifier chains
CombineChains(tokens) ==
  /\ utilCall = "none"
  /\ utilCall' = "combineChains"
  /\ utilArgs' = tokens
  /\ utilOut' = [threw |-> FALSE,
                 value |-> getCombineConsecutiveTokensOfTypeFn(
                             {TOKEN_IDENTIFIER, TOKEN_KEYWORD}, TOKEN_IDENTIFIER,
                             IDENTIFIER_CHAIN_CHARS, <<>>, <<>>, tokens)]
  /\ UNCHANGED <<lineVars, editorVars, tokenizerVars, cacheVars>>

MaxBlock == 4

\* tokens of a stream with blocks: the two parentheses and an identifier
BlockTokens == {Punc("("), Punc(")"), Ident(<<"a">>)}

BlockStreams == SeqsUpTo(BlockTokens, MaxBlock) \ {<<>>}

\* isCompleteCodeBlock(getCodeBlockAt(tokens, startIndex, direction)) with the
\* default pair set; startIndex is 0-based
GetCodeBlockAt(tokens, startIndex, direction) ==
  /\ utilCall = "none"
  /\ startIndex < Len(tokens)
  /\ utilCall' = "getCodeBlockAt"
  /\ utilArgs' = [tokens |-> tokens, startIndex |-> startIndex, direction |-> direction]
  /\ utilOut' = [threw |-> FALSE,
                 value |-> getCodeBlockAt(tokens, startIndex + 1, direction, PARENS),
                 complete |-> isCompleteCodeBlock(
                                getCodeBlockAt(tokens, startIndex + 1, direction, PARENS))]
  /\ UNCHANGED <<lineVars, editorVars, tokenizerVars, cacheVars>>

\* tokens of a log statement after its prefix and suffix are removed: a
\* whitespace, strings that end with a colon, with a colon and a padding space
\* and with neither, and an identifier
LogIdTokens ==
  {Tok(TOKEN_WHITESPACE, <<" ">>), Tok(TOKEN_STRING, <<"a", ":">>),
   Tok(TOKEN_STRING, <<"a", ":", " ">>), Tok(TOKEN_STRING, <<"b">>), Ident(<<"a">>)}

\* the step detectLogId on a result that has no log id yet
DetectLogId(tokens) ==
  /\ utilCall = "none"
  /\ utilCall' = "detectLogId"
  /\ utilArgs' = ParseResult(tokens, <<>>, None, None)
  /\ utilOut' = [threw |-> FALSE,
                 value |-> detectLogId(ParseResult(tokens, <<>>, None, None))]
  /\ UNCHANGED <<lineVars, editorVars, tokenizerVars, cacheVars>>

\* appendColon: the token with a colon after its value; the caller's token is
\* this token from then on
appendColon(token) == [token EXCEPT !.value = @ \o <<":">>]

\* '' + parseResult.logId?.value
logIdText(parseResult) ==
  IF parseResult.logId = None THEN <<"u", "n", "d", "e", "f", "i", "n", "e", "d">>
  ELSE parseResult.logId.value

\* listLogItems of logger.ts
loggerListLogItems(parseResult, format) ==
  Join([i \in 1..Len(parseResult.logItems) |->
          LET logItem == parseResult.logItems[i]
              itemStr == serializeTokens(logItem, DefaultQuote)
              shouldLogItemKey ==
                itemStr # logIdText(parseResult) /\ ~itemIsOnlyLiterals(logItem)
          IN  (IF shouldLogItemKey
               THEN quoteString(itemStr \o <<":">>, format.quoteCharacter)
                      \o format.parameterSeparator
               ELSE <<>>)
              \o format.identifierPrefix \o itemStr \o format.identifierSuffix],
       format.parameterSeparator)

\* log of logger.ts: [threw, out, after], after the ParseResult as the call leaves it
loggerLog(parseResult, givenFormat) ==
  LET format == IF givenFormat = None THEN parseResult.logFormat ELSE givenFormat
      after == IF parseResult.logId # None
               THEN [parseResult EXCEPT !.logId = appendColon(parseResult.logId)]
               ELSE parseResult
  IN  IF format = None THEN [threw |-> TRUE, out |-> <<>>, after |-> parseResult]
      ELSE [threw |-> FALSE,
            out |-> format.logPrefix
                      \o quoteString(logIdText(after), format.quoteCharacter)
                      \o format.parameterSeparator
                      \o loggerListLogItems(after, format)
                      \o format.logSuffix,
            after |-> after]

MaxLogCalls == 3

\* results given to log: with and without a log id, with and without an item
LoggerInputs ==
  {ParseResult(<<>>, items, logId, logFormat) :
     items \in {<<>>, << <<Ident(<<"a">>)>> >>},
     logId \in {None, Tok(TOKEN_STRING, <<"a">>), Tok(TOKEN_STRING, <<"L", "3">>)},
     logFormat \in {None, JsWarn}}

\* the first call of log on a ParseResult
LoggerLog(parseResult, format) ==
  /\ utilCall = "none"
  /\ \E made \in {loggerLog(parseResult, format)} :
        /\ utilCall' = "log"
        /\ utilArgs' = [parseResult |-> parseResult, format |-> format, calls |-> 1]
        /\ utilOut' = [threw |-> made.threw, value |-> made.out, after |-> made.after,
                       first |-> made.out]
  /\ UNCHANGED <<lineVars, editorVars, tokenizerVars, cacheVars>>

\* another call of log on the same ParseResult with the same format
LoggerLogAgain ==
  /\ utilCall = "log"
  /\ ~utilOut.threw
  /\ utilArgs.calls < MaxLogCalls
  /\ \E made \in {loggerLog(utilOut.after, utilArgs.format)} :
        /\ utilArgs' = [utilArgs EXCEPT !.calls = @ + 1]
        /\ utilOut' = [utilOut EXCEPT !.threw = made.threw, !.value = made.out,
                                      !.after = made.after]
  /\ UNCHANGED <<utilCall, lineVars, editorVars, tokenizerVars, cacheVars>>

\* parse(tokenize(text)) as far as combineBracketNotation
CombineBracketNotation(text) ==
  /\ utilCall = "none"
  /\ tokenize(text).ok
  /\ utilCall' = "combineBracketNotation"
  /\ utilArgs' = removeWhitespace(tokenize(text).tokens)
  /\ utilOut' = [threw |-> FALSE,
                 value |-> combineBracketNotation(removeWhitespace(tokenize(text).tokens))]
  /\ UNCHANGED <<lineVars, editorVars, tokenizerVars, cacheVars>>

NextUtil ==
  \/ \E text \in LambdaLines : RemoveLambdas(text)
  \/ \E token \in SerializeTokens, quoteChar \in {Apostrophe, DefaultQuote} :
       SerializeToken(token, quoteChar)
  \/ \E loggerConfig \in CaretConfigs, parseResult \in ForwardResults :
       \E k \in 1..Len(loggerConfig) : GetCaretPosition(loggerConfig, k, parseResult)
  \/ \E parseResult \in EnsureInputs, lineNr \in 0..MaxLineNr :
       EnsureLogId(parseResult, lineNr)
  \/ \E tokens \in Streams : SetDefaultId(tokens)
  \/ \E text \in ItemLines : GetTokensUntilSeparator(text)
  \/ \E text \in BracketLines : CombineBracketNotation(text)
  \/ \E text \in GenericLines : RemoveTypes(text)
  \/ \E text \in GenericLines : RemoveGenerics(text)
  \/ \E tokens \in ChainStreams : CombineChains(tokens)
  \/ \E tokens \in BlockStreams, startIndex \in 0..(MaxBlock - 1), direction \in {-1, 1} :
       GetCodeBlockAt(tokens, startIndex, direction)
  \/ \E tokens \in SeqsUpTo(LogIdTokens, MaxStream) : DetectLogId(tokens)
  \/ \E parseResult \in LoggerInputs, format \in {None, JsLog, CsWrite} :
       LoggerLog(parseResult, format)
  \/ LoggerLogAgain

InitUtil == Init /\ config = JsConfig

SpecUtil == InitUtil /\ [][NextUtil]_vars

(***************************************************************************)
(* The language cache (magic.ts): getMagicItem suspends at the await of    *)
(* its import, and other calls run until the import settles.               *)
(***************************************************************************)
MaxGetCalls == 3
MaxClears == 2

\* language ids of documents: two with a module of their own, one mapped to
\* another's module and one with no module
LanguageIds == {"javascript", "javascriptreact", "csharp", "cobol"}

\* the defaultLanguage setting, passed as fallbackId
FallbackIds == {"javascript", "csharp"}

languageIdToModuleName(languageId) ==
  IF languageId = "javascriptreact" THEN "javascript" ELSE languageId

\* magicItems[moduleName], 0 for undefined
cachedItem(items, moduleName) ==
  IF moduleName \in ModuleNames THEN items[moduleName] ELSE 0

\* getMagicItem up to its first await: the cached item, or the import begun
beginGet(items, languageId, fallbackId, since) ==
  [languageId |-> languageId,
   moduleName |-> languageIdToModuleName(languageId),
   fallbackId |-> fallbackId,
   pc |-> IF cachedItem(items, languageIdToModuleName(languageId)) # 0 THEN "done" ELSE "import",
   item |-> cachedItem(items, languageIdToModuleName(languageId)),
   made |-> 0,
   since |-> since]

\* a call of getMagicItem(languageId, fallbackId)
GetMagicItem(languageId, fallbackId) ==
  /\ Len(getCalls) < MaxGetCalls
  /\ getCalls' = Append(getCalls, beginGet(magicItems, languageId, fallbackId, cleared))
  /\ UNCHANGED <<magicItems, cleared, itemsMade, lineVars, editorVars, tokenizerVars, utilVars>>

\* the import of call c resolves: the item is constructed, stored and returned
ImportResolved(c) ==
  /\ c \in 1..Len(getCalls)
  /\ getCalls[c].pc = "import"
  /\ getCalls[c].moduleName \in ModuleNames
  /\ itemsMade' = itemsMade + 1
  /\ magicItems' = [magicItems EXCEPT ![getCalls[c].moduleName] = itemsMade + 1]
  /\ getCalls' = [getCalls EXCEPT ![c].pc = "done", ![c].item = itemsMade + 1,
                                  ![c].made = itemsMade + 1]
  /\ UNCHANGED <<cleared, lineVars, editorVars, tokenizerVars, utilVars>>

\* the import of call c rejects: the catch returns getMagicItem(fallbackId),
\* whose own fallbackId is the default 'javascript'
ImportRejected(c) ==
  /\ c \in 1..Len(getCalls)
  /\ getCalls[c].pc = "import"
  /\ getCalls[c].moduleName \notin ModuleNames
  /\ getCalls' = [getCalls EXCEPT
                    ![c] = [beginGet(magicItems, getCalls[c].fallbackId, "javascript",
                                     getCalls[c].since)
                              EXCEPT !.languageId = getCalls[c].languageId]]
  /\ UNCHANGED <<magicItems, cleared, itemsMade, lineVars, editorVars, tokenizerVars, utilVars>>

\* clearCache, as deactivate calls it
ClearCache ==
  /\ cleared < MaxClears
  /\ cleared' = cleared + 1
  /\ magicItems' = [moduleName \in ModuleNames |-> 0]
  /\ UNCHANGED <<getCalls, itemsMade, lineVars, editorVars, tokenizerVars, utilVars>>

NextCache ==
  \/ \E languageId \in LanguageIds, fallbackId \in FallbackIds : GetMagicItem(languageId, fallbackId)
  \/ \E c \in 1..MaxGetCalls : ImportResolved(c)
  \/ \E c \in 1..MaxGetCalls : ImportRejected(c)
  \/ ClearCache

InitCache == Init /\ config = JsConfig

SpecCache == InitCache /\ [][NextCache]_vars

(***************************************************************************)
(* Properties.                                                             *)
(***************************************************************************)
\* the texts of the leading runs of a token stream
LeadingTexts(tokens) ==
  {Concat([j \in 1..k |-> serializeToken(tokens[j], DefaultQuote)]) : k \in 1..Len(tokens)}

\* the 1-based positions of the formats whose logPrefix is the text of a leading run
PrefixMatches(cfg, tokens) ==
  {i \in 1..Len(cfg) : cfg[i].logPrefix \in LeadingTexts(tokens)}

Lowest(S) == CHOOSE i \in S : \A j \in S : i <= j

\* the line the last rotation was given, as tokens
PrevTokens == tokenize(prev).tokens

\* the statement on the line is rendered with format f
RenderedWith(f) ==
  /\ logged.format = f
  /\ line = logged.out
  /\ StartsWith(line, f.logPrefix)
  /\ EndsWith(line, f.logSuffix)

\* C1 as stated: a forward rotation of a token stream whose leading tokens
\* concatenate to the logPrefix of the format at index i returns the statement
\* rendered with the format at index (i + 1) mod n, for every such i.
C1_ForwardAdvancesFromEveryMatch ==
  (op = "rotate" /\ dir = 1 /\ tokenize(prev).ok) =>
    \A i \in PrefixMatches(config, PrevTokens) :
      outcome = "ok" /\ RenderedWith(config[(i % Len(config)) + 1])

\* C1 amended: a forward rotation of a token stream whose leading tokens
\* concatenate to a configured logPrefix returns the statement rendered with
\* the format after the first format (lowest index i) whose logPrefix matches,
\* at index (i + 1) mod n, so the last format wraps to the first.
C1_ForwardAdvancesFromFirstMatch ==
  (op = "rotate" /\ dir = 1 /\ tokenize(prev).ok
     /\ PrefixMatches(config, PrevTokens) # {}) =>
    /\ outcome = "ok"
    /\ RenderedWith(config[(Lowest(PrefixMatches(config, PrevTokens)) % Len(config)) + 1])

\* a forward rotation of a statement in the last of three formats gave the first
C1_Witness ==
  /\ op = "rotate" /\ dir = 1 /\ outcome = "ok"
  /\ Len(config) = 3
  /\ PrefixMatches(config, PrevTokens) = {3}
  /\ logged.format = config[1]
  /\ StartsWith(line, config[1].logPrefix)

\* C2: a rotation with direction -1 of a statement recognised as the format at
\* index i returns the statement rendered with the format at index (i - 1) mod n,
\* so the first format wraps to the last.
C2_BackwardStepsBack ==
  (op = "rotate" /\ dir = -1 /\ tokenize(prev).ok
     /\ PrefixMatches(config, PrevTokens) # {}) =>
    /\ outcome = "ok"
    /\ RenderedWith(config[((Lowest(PrefixMatches(config, PrevTokens)) - 2 + Len(config))
                              % Len(config)) + 1])
\* C3: a statement freshly created by the Logger with the first format, rotated
\* forward n times in a row (n >= 2 the length of the config), is the original
\* statement again.
C3_RoundTrip ==
  (fresh # <<>> /\ Len(config) >= 2 /\ rotations = Len(config)) => line = fresh

\* the serialised texts of a sequence of log items
ItemTexts(items, quoteChar) ==
  [i \in 1..Len(items) |-> serializeTokens(items[i], quoteChar)]

\* C4: the serialised log-item texts of a rotated statement are the values the
\* statement logged, in the same order, after any number of rotations.
C4_ItemsPreserved ==
  (op = "rotate" /\ outcome = "ok") =>
    ItemTexts(result.logItems, logged.format.quoteCharacter)
      = ItemTexts(vals, logged.format.quoteCharacter)

\* C5: the rotator returns null, and throws nothing, exactly when no configured
\* logPrefix is the text of a leading run of the tokens.
C5_NullIffNoPrefixMatches ==
  (op = "rotate" /\ tokenize(prev).ok) =>
    /\ outcome = "null" <=> PrefixMatches(config, PrevTokens) = {}
    /\ outcome # "threw"
    /\ outcome = "null" => line = prev /\ logged = NotLogged

\* rotating a line that is no log statement gave null and left the line
C5_Witness ==
  /\ op = "rotate" /\ outcome = "null"
  /\ prev = RawNonLog.text /\ line = prev
  /\ PrefixMatches(config, PrevTokens) = {}

HasIdentifierOrKeyword(item) ==
  \E k \in 1..Len(item) : item[k].type \in {TOKEN_IDENTIFIER, TOKEN_KEYWORD}

\* a String token that reads as a generated key: its text ends with a colon,
\* or with a colon and the padding space
IsKeyToken(t) ==
  /\ t.type = TOKEN_STRING
  /\ EndsWith(t.value, <<":">>) \/ EndsWith(t.value, <<":", " ">>)

KeyCount(text) ==
  Cardinality({k \in 1..Len(tokenize(text).tokens) : IsKeyToken(tokenize(text).tokens[k])})

\* C6: a rotated statement has exactly one key for every logged value that
\* contains an Identifier or Keyword token and none for the other values.
C6_OneKeyPerItem ==
  (op = "rotate" /\ outcome = "ok") =>
    KeyCount(line) = Cardinality({i \in 1..Len(vals) : HasIdentifierOrKeyword(vals[i])})

\* the logId's text is the serialised text of the first log item
LogIdRepeatsFirstItem(parseResult, quoteChar) ==
  /\ Len(parseResult.logItems) > 0
  /\ parseResult.logId.value = serializeTokens(parseResult.logItems[1], quoteChar)

\* C7: the Logger emits the logId, quoted and first, exactly when there is a
\* logId and its text differs from the serialised text of the first log item,
\* whatever the type of the logId token.
C7_LogIdEmittedIffDiffers ==
  (op \in {"create", "rotate"} /\ outcome = "ok") =>
    LET q == logged.format.quoteCharacter
        emit == result.logId # None /\ ~LogIdRepeatsFirstItem(result, q)
    IN  /\ logged.useLogId <=> emit
        /\ emit => /\ logged.params[1] = quoteString(result.logId.value, q)
                   /\ StartsWith(line, logged.format.logPrefix \o logged.params[1])

IsQuoted(str, quoteChar) ==
  /\ Len(str) >= 2 * Len(quoteChar)
  /\ StartsWith(str, quoteChar)
  /\ EndsWith(str, quoteChar)

\* itemStr is a quoted key ending in a colon (and padding), the separator, and the value
KeyPrecedes(itemStr, value, f) ==
  \E n \in 1..Len(itemStr) :
    LET key == SubSeq(itemStr, 1, n)
    IN  /\ itemStr = key \o f.parameterSeparator \o value
        /\ IsQuoted(key, f.quoteCharacter)
        /\ \/ EndsWith(key, <<":">> \o f.quoteCharacter)
           \/ EndsWith(key, <<":", " ">> \o f.quoteCharacter)

\* C8: in the Logger's output a key string precedes an item's value if and only
\* if the item contains an Identifier or Keyword token; a literal-only item is
\* its value alone.
C8_KeyIffIdentifierOrKeyword ==
  (op \in {"create", "rotate"} /\ outcome = "ok") =>
    LET f == logged.format
        rendered == [i \in 1..Len(result.logItems) |->
                       logItemParam(result.logItems[i], i - 1, f, logged.useLogId)]
        value(i) == f.identifierPrefix
                      \o serializeTokens(result.logItems[i], f.quoteCharacter)
                      \o f.identifierSuffix
    IN  /\ \A i \in 1..Len(result.logItems) :
             IF HasIdentifierOrKeyword(result.logItems[i])
             THEN KeyPrecedes(rendered[i], value(i), f)
             ELSE rendered[i] = value(i)
        /\ Len(result.logItems) > 0 =>
             /\ logged.params[Len(logged.params)] = Join(rendered, f.parameterSeparator)
             /\ EndsWith(line, Join(rendered, f.parameterSeparator) \o f.logSuffix)

\* one log call rendered a literal-only item bare and an identifier with its key
C8_Witness ==
  /\ op = "rotate" /\ outcome = "ok"
  /\ Len(result.logItems) >= 2
  /\ ~HasIdentifierOrKeyword(result.logItems[1])
  /\ HasIdentifierOrKeyword(result.logItems[2])
  /\ KeyCount(line) >= 1

\* the format a log call is to use: the explicit argument, else the result's
FormatGiven == IF formatArg # None THEN formatArg ELSE result.logFormat

\* C9: log(result, format) throws and returns no statement exactly when neither
\* the format argument nor result.logFormat is present; otherwise it returns a
\* string that starts with the logPrefix and ends with the logSuffix of the
\* format it was given.
C9_ThrowsIffNoFormat ==
  op = "log" =>
    /\ logged.threw <=> (formatArg = None /\ result.logFormat = None)
    /\ logged.threw => outcome = "threw" /\ logged.out = <<>>
    /\ ~logged.threw =>
         /\ outcome = "ok" /\ line = logged.out
         /\ StartsWith(line, FormatGiven.logPrefix)
         /\ EndsWith(line, FormatGiven.logSuffix)

\* log was called with no format at all and threw
C9_Witness ==
  /\ op = "log" /\ formatArg = None /\ result.logFormat = None
  /\ outcome = "threw" /\ Len(result.logItems) > 0

IsValidFormat(typeofs) ==
  \A k \in 1..Len(FormatFields) : typeofs[FormatFields[k]] = expectedType(FormatFields[k])

InvalidPositions(cfg) == {i \in 1..Len(cfg) : ~IsValidFormat(cfg[i])}

WrongFields(typeofs) ==
  {k \in 1..Len(FormatFields) : typeofs[FormatFields[k]] # expectedType(FormatFields[k])}

\* C10: validateLoggerConfig returns null if and only if every format has its
\* six string fields and its boolean insertSpaces; otherwise the message names
\* the 1-based position of the first invalid format and its first missing or
\* mistyped field, in the order logPrefix, parameterSeparator, identifierPrefix,
\* identifierSuffix, logSuffix, quoteCharacter, insertSpaces.
C10_ValidateNamesFirstViolation ==
  op = "validate" =>
    /\ errorMsg = NoError <=> InvalidPositions(override) = {}
    /\ InvalidPositions(override) # {} =>
         LET at == Lowest(InvalidPositions(override))
             field == FormatFields[Lowest(WrongFields(override[at]))]
         IN  /\ errorMsg.nr = at
             /\ errorMsg.text = fieldError(field)

\* the second format is the first invalid one and misses two fields
C10_Witness ==
  /\ op = "validate"
  /\ Len(override) = 2
  /\ IsValidFormat(override[1])
  /\ Cardinality(WrongFields(override[2])) = 2
  /\ errorMsg.nr = 2

\* the formats a setting stands for, when every entry of it is well formed
SettingIsHonoured == Len(logFormats) # 0 /\ \A i \in 1..Len(logFormats) : IsValidFormat(logFormats[i].typeofs)

HonouredFormats ==
  IF SettingIsHonoured THEN [i \in 1..Len(logFormats) |-> logFormats[i].format] ELSE config

\* what a rotator of the honoured formats makes of the line an edit was about
HonouredRotation(edit) ==
  rotateLine(HonouredFormats, trim(before[edit.did.lineToLog + 1]), edit.logDirection)

\* C11: a malformed logFormats override is never half-applied: when the list
\* fails validation the command shows the error message, creates statements
\* with the language's first default format and rotates through the default
\* list; when it passes (or is empty) no message is shown, and a non-empty
\* valid list is used both for creating and for rotating.
C11_OverrideNeverHalfApplied ==
  command = "log" =>
    /\ shown = NoError <=> (Len(logFormats) = 0 \/ SettingIsHonoured)
    /\ \A k \in 1..Len(edits) :
         /\ edits[k].did.kind = "insert" =>
              /\ HonouredRotation(edits[k]).kind = "null"
              /\ StartsWith(edits[k].did.logStatement, HonouredFormats[1].logPrefix)
              /\ EndsWith(edits[k].did.logStatement, HonouredFormats[1].logSuffix)
         /\ edits[k].did.kind = "replace" =>
              /\ HonouredRotation(edits[k]).kind = "ok"
              /\ edits[k].did.logStatement = HonouredRotation(edits[k]).logged.out

\* a setting whose second entry is malformed, with one statement rotated and
\* one created by the command
C11_Witness ==
  /\ command = "log"
  /\ Len(logFormats) = 2
  /\ IsValidFormat(logFormats[1].typeofs)
  /\ ~IsValidFormat(logFormats[2].typeofs)
  /\ shown # NoError
  /\ \E k \in 1..Len(edits) : edits[k].did.kind = "insert"
  /\ \E k \in 1..Len(edits) : edits[k].did.kind = "replace"

\* a character that is not whitespace and starts no token of the grammar
Unclassified(c) ==
  c \notin (WHITESPACE \cup DIGITS \cup OPERATOR \cup PUNCTUATION \cup STRING_DELIM
            \cup IDENTIFIER_START \cup {SINGLE_LINE_COMMENT[1], MULTI_LINE_COMMENT_START[1]})

\* a character of no class at one of the positions at which tokenize looks
\* for the next token
UnclassifiedAt(text, carets) == \E k \in 1..Len(carets) : Unclassified(text[carets[k]])

\* a line without strings and comments, whose tokens hold its text as written
IsPlain(text) ==
  \A p \in 1..Len(text) :
    /\ text[p] \notin STRING_DELIM
    /\ ~StartsWithAt(text, SINGLE_LINE_COMMENT, p)
    /\ ~StartsWithAt(text, MULTI_LINE_COMMENT_START, p)

TokenValues(tokens) == Concat([k \in 1..Len(tokens) |-> tokens[k].value])

\* tokenize threw exactly when a dispatch position holds an unclassified
\* character, and then returned nothing
ThrowsIffUnclassified ==
  /\ \E carets \in {tokenizeCarets(tkInput)} : tkOutput.ok <=> ~UnclassifiedAt(tkInput, carets)
  /\ ~tkOutput.ok => tkOutput.tokens = <<>>

\* the tokens reach the end of the line
CoversLine ==
  /\ tkCaret >= Len(tkInput) + 1
  /\ IsPlain(tkInput) => TokenValues(tkOutput.tokens) = tkInput

C14_RemoveLambdasNeverRaises ==
  utilCall = "removeLambdas" => ~utilOut.threw

\* str with a backslash before every occurrence of the character q
EscapedAll(str, q) ==
  Concat([k \in 1..Len(str) |-> IF <<str[k]>> = q THEN <<"\\">> \o q ELSE <<str[k]>>])

\* C15: a String token serialises to the quote character, the value with
\* every occurrence of the quote character preceded by a backslash, and the
\* quote character; a token of any other type serialises to its value
C15_EveryQuoteEscaped ==
  utilCall = "serializeToken" =>
    utilOut.value =
      IF utilArgs.token.type = TOKEN_STRING
      THEN utilArgs.quoteChar \o EscapedAll(utilArgs.token.value, utilArgs.quoteChar)
             \o utilArgs.quoteChar
      ELSE utilArgs.token.value

\* C16: for a statement the Logger rendered with a format of the config, the
\* default caret rule returns the offset just before that format's logSuffix
C16_CaretBeforeSuffix ==
  utilCall = "getCaretPosition" =>
    utilOut.value = Len(utilArgs.logStatement) - Len(utilArgs.format.logSuffix)

\* the same for the configs whose formats share one suffix
C16_CaretBeforeSharedSuffix ==
  (/\ utilCall = "getCaretPosition"
   /\ \A i \in 1..Len(utilArgs.loggerConfig) :
        utilArgs.loggerConfig[i].logSuffix = utilArgs.format.logSuffix) =>
    utilOut.value = Len(utilArgs.logStatement) - Len(utilArgs.format.logSuffix)

\* what the last log command did for the selections whose processing did not fail
Changes == SelectSeq([k \in 1..Len(edits) |-> edits[k].did], LAMBDA change : change.kind # "failed")

\* the caret of change i stands on a line holding its statement, at column
\* indent + caret offset
CaretOnStatement(i) ==
  /\ selections[i].line + 1 \in 1..Len(document)
  /\ document[selections[i].line + 1] = Spaces(Changes[i].indent) \o Changes[i].logStatement
  /\ selections[i].character
       = Changes[i].indent + getCaretPosition(config, Changes[i].logStatement)

\* C17: after a log command every caret ends on the line that holds the
\* statement generated or rotated for its own selection, for any mix of
\* rotating, inserting and failing selections
C17_CaretsOnOwnStatements ==
  command = "log" =>
    /\ Len(selections) = Len(Changes)
    /\ \A i \in 1..Len(Changes) : CaretOnStatement(i)

\* the same when no selection before the caret's own rotated a statement
C17_CaretsAfterInsertsOnly ==
  command = "log" =>
    /\ Len(selections) = Len(Changes)
    /\ \A i \in 1..Len(Changes) :
         (\A j \in 1..(i - 1) : Changes[j].kind = "insert") => CaretOnStatement(i)

\* C18: remove-all deletes every statement the log command created in the
\* document under the active configuration, a valid logFormats override included
C18_RemoveAllDeletesCreated ==
  command = "remove" =>
    \A i \in 1..Len(document) : document[i] \notin created

\* the same for the statements created with the formats of the language
C18_RemoveAllDeletesDefaultFormats ==
  (command = "remove" /\ magicOverride(logFormats, settingError(logFormats)) = None) =>
    \A i \in 1..Len(document) : document[i] \notin created

\* C20: ensureLogId leaves a ParseResult that has a logId unchanged, and
\* otherwise sets logId to a String token of the letter L followed by the
\* decimal number lineNr + 2
C20_LogIdIsLineNrPlusTwo ==
  utilCall = "ensureLogId" =>
    utilOut.value =
      IF utilArgs.parseResult.logId # None THEN utilArgs.parseResult
      ELSE [utilArgs.parseResult EXCEPT
              !.logId = Tok(TOKEN_STRING, <<"L">> \o decimal(utilArgs.lineNr + 2))]

\* a ParseResult that has a logId is returned unchanged
C20_LogIdKept ==
  (utilCall = "ensureLogId" /\ utilArgs.parseResult.logId # None) =>
    utilOut.value = utilArgs.parseResult

\* the calls begun since the last clearCache
CurrentCalls == {c \in 1..Len(getCalls) : getCalls[c].since = cleared}

\* C19: between two consecutive clearCache calls the item of a language is
\* built at most once, and every getMagicItem call for the language in
\* that interval resolves to that same item
C19_BuiltOncePerInterval ==
  \A c, d \in CurrentCalls :
    (/\ c # d
     /\ getCalls[c].pc = "done" /\ getCalls[d].pc = "done"
     /\ getCalls[c].moduleName = getCalls[d].moduleName) =>
      /\ getCalls[c].item = getCalls[d].item
      /\ ~(getCalls[c].made # 0 /\ getCalls[d].made # 0)

\* clearCache leaves the cache with no entries
C19_ClearCacheEmpties ==
  [][cleared' # cleared => \A moduleName \in ModuleNames : magicItems'[moduleName] = 0]_vars

\* the lines the changes before change i inserted
InsertsBefore(i) == Cardinality({j \in 1..(i - 1) : Changes[j].kind = "insert"})

\* where the line a change logged stands after the edit, 1-based
LoggedLineAfter(i) ==
  Changes[i].lineToLog + 1 + InsertsBefore(i)
    + (IF Changes[i].kind = "insert" /\ edits[1].logDirection = -1 THEN 1 ELSE 0)

\* where the line a change inserted stands after the edit, 1-based
InsertedLineAfter(i) ==
  Changes[i].logAnchor + 1 + InsertsBefore(i)
    + (IF edits[1].logDirection = 1 THEN 1 ELSE 0)

OfType(tokens, type) == {i \in 1..Len(tokens) : tokens[i].type = type}

\* the positions holding an interesting keyword
InterestingAt(tokens) ==
  {i \in OfType(tokens, TOKEN_KEYWORD) : tokens[i].value \in LOG_ID_KEYWORDS}

DelimiterPairs == {<<"(", ")">>, <<"[", "]">>, <<"{", "}">>, <<"<", ">">>}

\* the nesting depth of a pair's delimiters over the positions from..to
PairDepth(tokens, pair, from, to) ==
  Cardinality({k \in from..to : tokens[k].value = <<pair[1]>>})
    - Cardinality({k \in from..to : tokens[k].value = <<pair[2]>>})

\* the opener at o and the closer at c form a complete matched block
IsMatchedBlock(tokens, o, c) ==
  \E pair \in DelimiterPairs :
    /\ o < c
    /\ tokens[o].value = <<pair[1]>> /\ tokens[c].value = <<pair[2]>>
    /\ PairDepth(tokens, pair, o, c) = 0
    /\ \A k \in o..(c - 1) : PairDepth(tokens, pair, o, k) > 0

\* the positions where the separator stands outside every complete matched block
OpenSeparators(tokens, separator) ==
  {i \in 1..Len(tokens) :
     /\ Len(getMatchingTokens(tokens, separator, i, 1)) # 0
     /\ ~\E o \in 1..(i - 1), c \in (i + 1)..Len(tokens) : IsMatchedBlock(tokens, o, c)}

\* the runs of a stream between the separators at a set of positions
RunsBetween(tokens, separator, at) ==
  LET starts == {1} \cup {i + Len(getMatchingTokens(tokens, separator, i, 1)) : i \in at}
      endOf(s) == IF \E i \in at : i >= s
                  THEN Lowest({i \in at : i >= s}) - 1 ELSE Len(tokens)
  IN  {SubSeq(tokens, s, endOf(s)) : s \in starts}

\* C23: the items are the runs between the separators that stand outside a
\* complete matched (), [], {} or <> block, and no others
C23_SplitsAtOpenSeparators ==
  utilCall = "getTokensUntilSeparator" =>
    {utilOut.value[k] : k \in 1..Len(utilOut.value)}
      = RunsBetween(utilArgs.tokens, utilArgs.separator,
                    OpenSeparators(utilArgs.tokens, utilArgs.separator))

\* the same for the lines with no angle bracket and no closer before its opener
C23_SplitsAtOpenSeparatorsInNestedLines ==
  (/\ utilCall = "getTokensUntilSeparator"
   /\ \A k \in 1..Len(utilArgs.tokens) : utilArgs.tokens[k].value \notin {<<"<">>, <<">">>}
   /\ \A pair \in DelimiterPairs, k \in 1..Len(utilArgs.tokens) :
        PairDepth(utilArgs.tokens, pair, 1, k) >= 0) =>
    {utilOut.value[k] : k \in 1..Len(utilOut.value)}
      = RunsBetween(utilArgs.tokens, utilArgs.separator,
                    OpenSeparators(utilArgs.tokens, utilArgs.separator))

\* the position of the closer of the complete [...] block that opens at o, 0 for none
BracketCloser(tokens, o) ==
  IF \E c \in (o + 1)..Len(tokens) : IsMatchedBlock(tokens, o, c) /\ tokens[o].value = <<"[">>
  THEN CHOOSE c \in (o + 1)..Len(tokens) : IsMatchedBlock(tokens, o, c)
  ELSE 0

\* the identifiers of a stream that stand directly before a complete [...] block
BeforeBlock(tokens) ==
  {p \in 1..(Len(tokens) - 1) :
     tokens[p].type = TOKEN_IDENTIFIER /\ BracketCloser(tokens, p + 1) # 0}

\* the complete [...] block after the identifier at p
BlockAfter(tokens, p) == SubSeq(tokens, p + 1, BracketCloser(tokens, p + 1))

\* the identifier at p took the text of its block, and the tokens before it stayed
TookBlockText(tokens, out, p) ==
  /\ Len(out) >= p
  /\ SubSeq(out, 1, p - 1) = SubSeq(tokens, 1, p - 1)
  /\ out[p].type = TOKEN_IDENTIFIER
  /\ StartsWith(out[p].value,
                tokens[p].value \o serializeTokens(BlockAfter(tokens, p), DefaultQuote))

\* C24 as claimed: the first identifier before a complete [...] block takes
\* the block's text and the block's tokens leave the stream, whether or not
\* the block holds an identifier
C24_BlockAlwaysRemoved ==
  (utilCall = "combineBracketNotation" /\ BeforeBlock(utilArgs) # {}) =>
    \E p \in {Lowest(BeforeBlock(utilArgs))} :
      /\ TookBlockText(utilArgs, utilOut.value, p)
      /\ Len(utilOut.value) <= Len(utilArgs) - Len(BlockAfter(utilArgs, p))

\* the identifiers the outer loop reaches: at least three tokens follow
Reached(tokens) == {p \in BeforeBlock(tokens) : p + 3 <= Len(tokens)}

\* C24 amended: the first identifier that stands before a complete [...]
\* block and has at least three tokens after it takes the block's text; a
\* block that holds no identifier leaves the stream, a block that holds one
\* stays, with its identifiers still in the stream; with no such identifier
\* the stream is unchanged
C24_BlockRemovedUnlessItHoldsAnIdentifier ==
  utilCall = "combineBracketNotation" =>
    IF Reached(utilArgs) = {} THEN utilOut.value = utilArgs
    ELSE \E p \in {Lowest(Reached(utilArgs))} :
           /\ TookBlockText(utilArgs, utilOut.value, p)
           /\ IF \E k \in 1..Len(BlockAfter(utilArgs, p)) :
                   BlockAfter(utilArgs, p)[k].type = TOKEN_IDENTIFIER
              THEN /\ Len(utilOut.value) > p
                   /\ utilOut.value[p + 1] = utilArgs[p + 1]
                   /\ \A k \in 1..Len(BlockAfter(utilArgs, p)) :
                        BlockAfter(utilArgs, p)[k].type = TOKEN_IDENTIFIER =>
                          \E n \in (p + 1)..Len(utilOut.value) :
                            /\ utilOut.value[n].type = TOKEN_IDENTIFIER
                            /\ StartsWith(utilOut.value[n].value,
                                          BlockAfter(utilArgs, p)[k].value)
              ELSE Len(utilOut.value) <= Len(utilArgs) - Len(BlockAfter(utilArgs, p))

\* a block holding an identifier was combined and stayed in the stream
C24_Witness ==
  /\ utilCall = "combineBracketNotation"
  /\ Reached(utilArgs) # {}
  /\ \E k \in 1..Len(BlockAfter(utilArgs, Lowest(Reached(utilArgs)))) :
       BlockAfter(utilArgs, Lowest(Reached(utilArgs)))[k].type = TOKEN_IDENTIFIER
  /\ Len(utilOut.value) = Len(utilArgs)
  /\ utilOut.value # utilArgs

\* the positions of the lambda operators of a token stream
LambdaOperators(tokens) ==
  {o \in 1..Len(tokens) : tokens[o] = Tok(TOKEN_OPERATOR, LambdaOperator)}

\* the lambda operators followed by a { that no } of the stream closes
OpenLambdas(tokens) ==
  {o \in LambdaOperators(tokens) :
     /\ o < Len(tokens)
     /\ tokens[o + 1] = Punc("{")
     /\ ~\E c \in (o + 2)..Len(tokens) : IsMatchedBlock(tokens, o + 1, c)}

\* C25: removeLambdas leaves an open lambda intact whatever the last token of
\* the line is: the tokens up to the { of the first lambda of the line, when it
\* is open, are kept, the whole line is kept when it has no other lambda, and
\* every lambda operator left in the line is one of an open lambda
C25_OpenLambdaLeftIntact ==
  (utilCall = "removeLambdas" /\ ~utilOut.threw) =>
    \A o \in OpenLambdas(utilArgs) :
      (o = Lowest(LambdaOperators(utilArgs))) =>
        /\ Len(utilOut.value) >= o + 1
        /\ SubSeq(utilOut.value, 1, o + 1) = SubSeq(utilArgs, 1, o + 1)
        /\ LambdaOperators(utilArgs) = {o} => utilOut.value = utilArgs
        /\ LambdaOperators(utilOut.value) = OpenLambdas(utilOut.value)

\* the same for the lines that end with the { of an open lambda
C25_OpenLambdaLeftIntactAtLineEnd ==
  (/\ utilCall = "removeLambdas" /\ ~utilOut.threw
   /\ Len(utilArgs) > 0
   /\ utilArgs[Len(utilArgs)] = Punc("{")) =>
    \A o \in OpenLambdas(utilArgs) :
      (o = Lowest(LambdaOperators(utilArgs))) =>
        /\ Len(utilOut.value) >= o + 1
        /\ SubSeq(utilOut.value, 1, o + 1) = SubSeq(utilArgs, 1, o + 1)
        /\ LambdaOperators(utilArgs) = {o} => utilOut.value = utilArgs
        /\ LambdaOperators(utilOut.value) = OpenLambdas(utilOut.value)

\* the positions of the < operators of a token stream
AngleOpeners(tokens) ==
  {o \in 1..Len(tokens) : tokens[o] = Tok(TOKEN_OPERATOR, <<"<">>)}

\* the position of the > that closes the complete matched block opening at o, 0 for none
AngleCloser(tokens, o) ==
  IF \E c \in (o + 1)..Len(tokens) : IsMatchedBlock(tokens, o, c)
  THEN CHOOSE c \in (o + 1)..Len(tokens) : IsMatchedBlock(tokens, o, c)
  ELSE 0

\* the < that open a complete matched block of identifiers and commas only
TypeArguments(tokens) ==
  {o \in AngleOpeners(tokens) :
     /\ AngleCloser(tokens, o) # 0
     /\ \A k \in (o + 1)..(AngleCloser(tokens, o) - 1) :
          tokens[k].type = TOKEN_IDENTIFIER \/ tokens[k] = Punc(",")}

\* the tokens that stand in no block of TypeArguments, in order; with
\* identifiers left out when asked
OutsideTypeArguments(tokens, withIdentifiers) ==
  LET outside == {k \in 1..Len(tokens) :
                    /\ withIdentifiers \/ tokens[k].type # TOKEN_IDENTIFIER
                    /\ ~\E o \in TypeArguments(tokens) :
                          o <= k /\ k <= AngleCloser(tokens, o)}
  IN  SelectSeq([k \in 1..Len(tokens) |-> [at |-> k, token |-> tokens[k]]],
                LAMBDA e : e.at \in outside)

\* the tokens of part occur in whole in the same order
RECURSIVE OccursInOrder(_, _)
OccursInOrder(part, whole) ==
  IF Len(part) = 0 THEN TRUE
  ELSE IF Len(whole) = 0 THEN FALSE
  ELSE IF part[1].token = whole[1] THEN OccursInOrder(Tail(part), Tail(whole))
  ELSE OccursInOrder(part, Tail(whole))

C26_WitnessComparison ==
  /\ utilCall = "removeTypes"
  /\ AngleOpeners(utilArgs) # {}
  /\ \A o \in AngleOpeners(utilArgs) : AngleCloser(utilArgs, o) = 0
  /\ utilOut.value = utilArgs

\* the token is chainable: an identifier or a keyword
Chainable(t) == t.type \in {TOKEN_IDENTIFIER, TOKEN_KEYWORD}

\* the token is the chain separator
Separator(t) == t.type # TOKEN_STRING /\ t.value \in IDENTIFIER_CHAIN_CHARS

\* the positions s..e alternate chainable token, separator, ..., chainable token
Alternates(tokens, s, e) ==
  /\ 1 <= s /\ s <= e /\ e <= Len(tokens)
  /\ (e - s) % 2 = 0
  /\ \A k \in s..e : IF (k - s) % 2 = 0 THEN Chainable(tokens[k]) ELSE Separator(tokens[k])

\* the maximal alternating runs with at least two chainable tokens, as <<s, e>>
ChainRuns(tokens) ==
  {r \in (1..Len(tokens)) \X (1..Len(tokens)) :
     /\ r[2] >= r[1] + 2
     /\ Alternates(tokens, r[1], r[2])
     /\ ~Alternates(tokens, r[1] - 2, r[2])
     /\ ~Alternates(tokens, r[1], r[2] + 2)}

\* the stream with every run of ChainRuns replaced by one identifier token
\* whose value is the concatenation of the run's values
ChainsReplaced(tokens) ==
  Concat([k \in 1..Len(tokens) |->
            IF \E r \in ChainRuns(tokens) : r[1] = k
            THEN LET r == CHOOSE r \in ChainRuns(tokens) : r[1] = k
                 IN  <<Ident(TokenValues(SubSeq(tokens, r[1], r[2])))>>
            ELSE IF \E r \in ChainRuns(tokens) : r[1] < k /\ k <= r[2] THEN <<>>
            ELSE <<tokens[k]>>])

\* C27: chain combination replaces every maximal run that alternates chainable
\* token, separator, chainable token and holds at least two chainable tokens
\* by one token of the new type whose value is the concatenation of the run;
\* a separator after the run stays a token of its own and a lone chainable
\* token is left as it is
C27_ChainsCombined ==
  utilCall = "combineChains" => utilOut.value = ChainsReplaced(utilArgs)

\* a run of two chainable tokens that ends a keyword was combined, and the
\* separator after it stayed in the stream
C27_Witness ==
  /\ utilCall = "combineChains"
  /\ \E r \in ChainRuns(utilArgs) :
       /\ r[2] < Len(utilArgs)
       /\ Separator(utilArgs[r[2] + 1])
       /\ utilArgs[r[2]].type = TOKEN_KEYWORD
  /\ Len(utilOut.value) < Len(utilArgs)
  /\ \E k \in 1..Len(utilOut.value) : utilOut.value[k] = Punc(".")

\* the delimiter that closes or opens the block of the delimiter v
Complement(v) ==
  IF \E pair \in DelimiterPairs : <<pair[1]>> = v
  THEN LET pair == CHOOSE pair \in DelimiterPairs : <<pair[1]>> = v IN <<pair[2]>>
  ELSE LET pair == CHOOSE pair \in DelimiterPairs : <<pair[2]>> = v IN <<pair[1]>>

\* the positions between s and p, both included, whichever comes first
Between(s, p) == IF s <= p THEN s..p ELSE p..s

\* delimiters equal to the one at s less their complements, between s and p
DepthFrom(tokens, s, p) ==
  Cardinality({k \in Between(s, p) : tokens[k].value = tokens[s].value})
    - Cardinality({k \in Between(s, p) : tokens[k].value = Complement(tokens[s].value)})

\* the positions in the direction from s that hold the complement of the
\* delimiter at s and bring the depth back to balance for the first time
Partners(tokens, s, direction) ==
  {p \in 1..Len(tokens) :
     /\ (p - s) * direction > 0
     /\ DepthFrom(tokens, s, p) = 0
     /\ \A k \in Between(s, p) \ {p} : DepthFrom(tokens, s, k) > 0}

\* the tokens from s to p in the order they are walked
Walked(tokens, s, p) ==
  [k \in 1..(Cardinality(Between(s, p))) |-> IF s <= p THEN tokens[s + k - 1] ELSE tokens[s - k + 1]]

\* C28: for an index on a delimiter and either direction, the block is
\* complete exactly when a partner that brings the depth back to balance
\* exists in that direction, the first token of the stream included; the run
\* is then the tokens from the delimiter to the partner, and otherwise the
\* tokens from the delimiter to the end of the stream in that direction
C28_BlockExact ==
  (utilCall = "getCodeBlockAt"
     /\ utilArgs.tokens[utilArgs.startIndex + 1].type = TOKEN_PUNCTUATION) =>
    LET tokens == utilArgs.tokens
        s == utilArgs.startIndex + 1
        partners == Partners(tokens, s, utilArgs.direction)
    IN  /\ utilOut.complete <=> partners # {}
        /\ partners # {} =>
             \E p \in partners : utilOut.value = Walked(tokens, s, p)
        /\ partners = {} =>
             utilOut.value =
               Walked(tokens, s, IF utilArgs.direction = 1 THEN Len(tokens) ELSE 1)

\* the same when the partner is not the first token of the stream and the
\* stream does not end on an unbalanced complement
C28_BlockExactInside ==
  (utilCall = "getCodeBlockAt"
     /\ utilArgs.tokens[utilArgs.startIndex + 1].type = TOKEN_PUNCTUATION
     /\ 1 \notin Partners(utilArgs.tokens, utilArgs.startIndex + 1, utilArgs.direction)
     /\ (Partners(utilArgs.tokens, utilArgs.startIndex + 1, utilArgs.direction) = {}
           => ~utilOut.complete)) =>
    LET tokens == utilArgs.tokens
        s == utilArgs.startIndex + 1
        partners == Partners(tokens, s, utilArgs.direction)
    IN  /\ partners # {} =>
             utilOut.complete /\ \E p \in partners : utilOut.value = Walked(tokens, s, p)
        /\ partners = {} =>
             utilOut.value =
               Walked(tokens, s, IF utilArgs.direction = 1 THEN Len(tokens)
                                 ELSE IF s = 1 THEN 1 ELSE 2)

\* the position of the first token that is not whitespace, 0 for none
FirstNonWhitespace(tokens) ==
  IF \E k \in 1..Len(tokens) : tokens[k].type # TOKEN_WHITESPACE
  THEN Lowest({k \in 1..Len(tokens) : tokens[k].type # TOKEN_WHITESPACE})
  ELSE 0

\* the text without the spaces it ends with
RECURSIVE WithoutPadding(_)
WithoutPadding(str) ==
  IF Len(str) > 0 /\ str[Len(str)] = " "
  THEN WithoutPadding(SubSeq(str, 1, Len(str) - 1))
  ELSE str

\* the text without its padding spaces and the colon before them
WithoutColonAndPadding(str) ==
  LET text == WithoutPadding(str)
  IN  IF Len(text) > 0 /\ text[Len(text)] = ":"
      THEN WithoutPadding(SubSeq(text, 1, Len(text) - 1))
      ELSE text

\* C29: when the first non-whitespace token is a String, detectLogId takes
\* that token out of the stream and leaves every other token, the whitespace
\* before it included, as it was, and the log id holds the token's text
\* without the trailing colon and padding spaces; otherwise the stream and
\* the log id are unchanged
C29_LogIdLiftedOut ==
  utilCall = "detectLogId" =>
    LET tokens == utilArgs.tokens
        first == FirstNonWhitespace(tokens)
    IN  IF first # 0 /\ tokens[first].type = TOKEN_STRING
        THEN /\ utilOut.value.tokens
                  = SubSeq(tokens, 1, first - 1) \o SubSeq(tokens, first + 1, Len(tokens))
             /\ utilOut.value.logId
                  = Tok(TOKEN_STRING, WithoutColonAndPadding(tokens[first].value))
        ELSE utilOut.value = utilArgs

\* the same for the streams that start with a String that has no padding
C29_LogIdLiftedOutAtHead ==
  (/\ utilCall = "detectLogId"
   /\ Len(utilArgs.tokens) > 0
   /\ utilArgs.tokens[1].type = TOKEN_STRING
   /\ WithoutPadding(utilArgs.tokens[1].value) = utilArgs.tokens[1].value) =>
    /\ utilOut.value.tokens = Tail(utilArgs.tokens)
    /\ utilOut.value.logId
         = Tok(TOKEN_STRING, WithoutColonAndPadding(utilArgs.tokens[1].value))

\* C30: log leaves the ParseResult it is given as it was, and every call of
\* log on the same ParseResult with the same format returns the string the
\* first call returned
C30_LogLeavesResult ==
  utilCall = "log" =>
    /\ utilOut.after = utilArgs.parseResult
    /\ utilOut.value = utilOut.first

\* the same for a ParseResult that has no log id
C30_LogLeavesResultWithoutLogId ==
  (utilCall = "log" /\ utilArgs.parseResult.logId = None) =>
    /\ utilOut.after = utilArgs.parseResult
    /\ utilOut.value = utilOut.first

====
